---- MODULE Spec2Model ----
(***************************************************************************)
(* Verification model of julianaplanas/blogwriter-ai.                      *)
(*                                                                         *)
(*   SpecAgent  : the in-memory EditingAgent (src/src.old/editing_agent.py)*)
(*   SpecStore  : BlogStorage over SQLite    (src/backend/db.py)           *)
(*   SpecHttp   : the FastAPI handlers       (src/backend/main.py)         *)
(*   SpecFetch  : the research and image clients                           *)
(*                (src/src/research_agent.py, src/src/image_agent.py)      *)
(*   SpecStoreArgs : BlogStorage saving and reading JSON columns           *)
(*   SpecLock   : get_db_connection and db_lock (src/backend/main.py)      *)
(*   SpecEnhanced : POST /generate-enhanced     (src/backend/main.py)      *)
(*                                                                         *)
(* Strings of the program are modelled by small sets of model values; a    *)
(* version id 'vN_<YYYYmmdd_HHMMSS>' is the pair <<N, second>>, the clock  *)
(* is counted in whole seconds because every id is formatted with          *)
(* strftime('%Y%m%d_%H%M%S').  Python's None is the pair <<0, 0>> for ids  *)
(* and the string "None" for text.                                         *)
(***************************************************************************)
EXTENDS Integers, Sequences, FiniteSets, TLC

VARIABLES
    \* ---- EditingAgent (editing_agent.py) ----
    max_versions,      \* self.max_versions
    version_history,   \* self.version_history : list of EditVersion
    now,               \* wall clock of the agent's process, in seconds
    edit_result,       \* the EditResult of the last call, if it was apply_edit
    undo_result,       \* the value returned by the last call, if it was
                       \* undo_to_version
    last_op,           \* the last EditingAgent call and its arguments
    tracked_log,       \* history variable: versions tracked since last clear
    all_tracked,       \* history variable: every version id ever tracked
    \* ---- BlogStorage (db.py) ----
    blog_posts,          \* table blog_posts: id -> row
    blog_post_versions,  \* table blog_post_versions: set of rows
    post_seq,            \* sqlite_sequence of blog_posts (AUTOINCREMENT)
    store_ret,           \* what the last BlogStorage call returned or raised
    update_count,        \* history variable: successful updates per post id
    store_post,          \* what the last get_blog_post call returned
    save_calls,          \* history variable: post id -> the arguments of
                         \* the save_blog_post call that returned it
    save_inputs,         \* the (references, images, metadata) arguments the
                         \* callers of save_blog_post pass in this run
    \* ---- HTTP server (main.py) ----
    http_blog_posts,   \* table blog_posts: id -> row
    versions,          \* table versions: id -> row
    http_now,          \* wall clock of the server process, in seconds
    pc,                \* per worker thread: "idle", or "fallback" while its
                       \* POST /generate is between its two INSERTs
    local,             \* per worker thread in "fallback": the second at
                       \* which the first INSERT failed
    http_resp,         \* the response of the last request that completed
    generation,        \* how the content generation of that request
                       \* went: "completed", "failed" (the Groq call
                       \* raised, or GROQ_API_KEY is unset), or "none"
                       \* when the request generates no post
    \* ---- API clients (research_agent.py, image_agent.py, agents.py) ----
    max_retries,       \* ResearchAgent.max_retries
    research_call,     \* the search_articles call in progress or, when
                       \* idle, the last one: its arguments, its requests
                       \* and what _make_request_with_retry gave
    image_call,        \* the same for fetch_images
    fetch_ret,         \* what the last client call returned or raised, if
                       \* no call was started since
    \* ---- get_db_connection (main.py) ----
    db_lock,           \* threading.Lock: the thread that holds it, or Free
    worker,            \* per pool thread: where it is in a handler's
                       \* "with get_db_connection() as conn:" block
    \* ---- POST /generate-enhanced (main.py) ----
    enhanced_call,     \* the last POST /generate-enhanced request: what its
                       \* environment gave and what it answered and stored
    \* ---- DatabaseManager (database.py) and the reading handlers ----
    dm_posts,          \* table blog_posts of DatabaseManager: id -> content
    db_call,           \* the last database operation: which one, whether
                       \* the database failed in it, and how it ended
    \* ---- EditingAgent._generate_changes_summary ----
    summary_call,      \* the last call: its two texts and the word-count
                       \* part of the summary it returned
    \* ---- BlogWriterAgent.edit_content (src/blog_writer_agent.py) ----
    writer_call        \* the last call: the agent it was made on, its
                       \* arguments, and what it returned or raised

agentVars == <<max_versions, version_history, now, edit_result, undo_result,
               last_op, tracked_log, all_tracked>>

storeVars == <<blog_posts, blog_post_versions, post_seq, store_ret,
               update_count, store_post, save_calls, save_inputs>>

httpVars ==
    <<http_blog_posts, versions, http_now, pc, local, http_resp, generation>>

fetchVars == <<max_retries, research_call, image_call, fetch_ret>>

lockVars == <<db_lock, worker>>

enhVars == <<enhanced_call>>

dbVars == <<dm_posts, db_call>>

textVars == <<summary_call>>

writerVars == <<writer_call>>

vars == <<agentVars, storeVars, httpVars, fetchVars, lockVars, enhVars,
          dbVars, textVars, writerVars>>

----------------------------------------------------------------------------
(* Bounds *)
MaxMaxVersions == 2
MaxClock == 1
MaxEdits == 4
MaxPosts == 2
MaxVersionNumber == 3
MaxHttpClock == 1
MaxHttpPosts == 1
MaxRetries == 1
MaxResults == 3
MaxThreads == 2
MaxTextLen == 3

Contents == {"a", "b"}
Instructions == {"i1", "i2"}
Errors == {"timeout"}

NoneId == <<0, 0>>
NoneText == "None"

----------------------------------------------------------------------------
(* Python helpers *)

\* h[-m:] for a list h and an int m >= 0.  -0 is 0, so h[-0:] is h[0:], the
\* whole list.
NegSliceFrom(h, m) ==
    IF m = 0 \/ m >= Len(h) THEN h
    ELSE SubSeq(h, Len(h) - m + 1, Len(h))

----------------------------------------------------------------------------
(* Python values and JSON text (json.dumps, json.loads) *)

\* Python values: a scalar, or a list or tuple of scalars
PyStr(s) == [t |-> "str", s |-> s, i |-> 0, items |-> <<>>]
PyInt(i) == [t |-> "int", s |-> "", i |-> i, items |-> <<>>]
PyNone == [t |-> "NoneType", s |-> "", i |-> 0, items |-> <<>>]
PySeq(t, items) == [t |-> t, s |-> "", i |-> 0, items |-> items]

\* A dict is the sequence of its items, <<k, v>> as [k |-> .., v |-> ..],
\* in insertion order and with different keys; two dicts are equal when
\* they have the same items, in any order.
DictItem(k, v) == [k |-> k, v |-> v]
dict_eq(d, e) == {d[n] : n \in DOMAIN d} = {e[n] : n \in DOMAIN e}

\* list == list for two lists of dicts
dict_list_eq(l, m) ==
    /\ Len(l) = Len(m)
    /\ \A n \in DOMAIN l : dict_eq(l[n], m[n])

\* JSON text, as the values it denotes: a member of an object has a string
\* as its name
JString(s) == [j |-> "string", s |-> s, i |-> 0, items |-> <<>>]
JNumber(i) == [j |-> "number", s |-> "", i |-> i, items |-> <<>>]
JNull == [j |-> "null", s |-> "", i |-> 0, items |-> <<>>]
JArray(items) == [j |-> "array", s |-> "", i |-> 0, items |-> items]
JMember(name, value) == [name |-> name, value |-> value]

\* str(i) for the ints of the model
int_text(i) == IF i = 1 THEN "1" ELSE IF i = 2 THEN "2" ELSE "0"

\* json.dumps of a scalar
dumps_scalar(v) ==
    IF v.t = "str" THEN JString(v.s)
    ELSE IF v.t = "int" THEN JNumber(v.i)
    ELSE JNull

\* json.dumps of a value: lists and tuples are both written as arrays
dumps_value(v) ==
    IF v.t \in {"list", "tuple"}
    THEN JArray([n \in DOMAIN v.items |-> dumps_scalar(v.items[n])])
    ELSE dumps_scalar(v)

\* json.dumps of a dict key: str as it is, int as its digits, None as null
dumps_key(k) ==
    IF k.t = "str" THEN k.s
    ELSE IF k.t = "int" THEN int_text(k.i)
    ELSE "null"

\* json.dumps of a dict, and of a list of dicts
dumps_dict(d) ==
    [n \in DOMAIN d |-> JMember(dumps_key(d[n].k), dumps_value(d[n].v))]

dumps_dict_list(l) == [n \in DOMAIN l |-> dumps_dict(l[n])]

\* json.loads of a scalar and of a value: an array is read as a list
loads_scalar(x) ==
    IF x.j = "string" THEN PyStr(x.s)
    ELSE IF x.j = "number" THEN PyInt(x.i)
    ELSE PyNone

loads_value(x) ==
    IF x.j = "array"
    THEN PySeq("list", [n \in DOMAIN x.items |-> loads_scalar(x.items[n])])
    ELSE loads_scalar(x)

\* json.loads of an object: of members with the same name the last one
\* gives the value.  (The dict has the name at the place of its first
\* member; the order of a dict plays no part in ==.)
loads_object(o) ==
    LET last(n) == \A m \in DOMAIN o : m > n => o[m].name # o[n].name
        kept == SelectSeq([n \in DOMAIN o |-> n], last)
    IN [n \in DOMAIN kept |->
           DictItem(PyStr(o[kept[n]].name), loads_value(o[kept[n]].value))]

loads_object_list(a) == [n \in DOMAIN a |-> loads_object(a[n])]

\* An optional argument: None or a list (a dict)
NoArg == [none |-> TRUE, value |-> <<>>]
Arg(v) == [none |-> FALSE, value |-> v]

\* x or [], x or {}: None and the empty list or dict are falsy
or_empty(x) == IF x.none \/ x.value = <<>> THEN <<>> ELSE x.value

----------------------------------------------------------------------------
(* EditingAgent *)

\* f"v{len(self.version_history) + 1}_{datetime.now().strftime(...)}"
version_id_for(h, t) == <<Len(h) + 1, t>>

\* Mutant: the parent is taken from the first entry, not the last
parent_version_first(h) ==
    IF Len(h) > 0 THEN h[1].version_id ELSE NoneId

\* self.version_history[-1].version_id if self.version_history else None
parent_version_for(h) ==
    IF Len(h) > 0 THEN h[Len(h)].version_id ELSE NoneId

EditVersion(h, content, instruction, t) ==
    [version_id     |-> version_id_for(h, t),
     content        |-> content,
     instruction    |-> instruction,
     timestamp      |-> t,
     parent_version |-> parent_version_for(h)]

\* Mutant: the trim keeps the oldest max_versions entries ([:max_versions])
trim_history_keep_oldest(h, m) ==
    IF Len(h) > m THEN SubSeq(h, 1, m) ELSE h

\* if len(self.version_history) > self.max_versions:
\*     self.version_history = self.version_history[-self.max_versions:]
trim_history(h, m) ==
    IF Len(h) > m THEN NegSliceFrom(h, m) ELSE h

\* Mutant: a version is added only while the history has room
add_version_when_room(h, m, content, instruction, t) ==
    IF Len(h) < m THEN Append(h, EditVersion(h, content, instruction, t))
    ELSE h

\* EditingAgent._add_version: the new value of self.version_history
add_version(h, m, content, instruction, t) ==
    trim_history(Append(h, EditVersion(h, content, instruction, t)), m)

\* The EditResult built on the success path of apply_edit
SuccessResult(markdown_text, edited, instruction) ==
    [raised           |-> FALSE,
     original_content |-> markdown_text,
     edited_content   |-> edited,
     instruction      |-> instruction,
     success          |-> TRUE,
     error_message    |-> NoneText]

\* Mutant: the except branch hands back no content
FailureResult_drops_content(markdown_text, instruction, err) ==
    [raised           |-> FALSE,
     original_content |-> markdown_text,
     edited_content   |-> "",
     instruction      |-> instruction,
     success          |-> FALSE,
     error_message    |-> err]

\* The EditResult built in the except branch of apply_edit
FailureResult(markdown_text, instruction, err) ==
    [raised           |-> FALSE,
     original_content |-> markdown_text,
     edited_content   |-> markdown_text,
     instruction      |-> instruction,
     success          |-> FALSE,
     error_message    |-> err]

NoResult ==
    [raised           |-> FALSE,
     original_content |-> NoneText,
     edited_content   |-> NoneText,
     instruction      |-> NoneText,
     success          |-> FALSE,
     error_message    |-> NoneText]

\* The text the chat-completion endpoint answers with when it answers: one
\* reply per instruction, so that content and instruction both vary
llm_reply(instruction) == IF instruction = "i1" THEN "a" ELSE "b"

\* Outcomes of the one chat-completion request made by _generate_edit: the
\* stripped reply, or an exception carrying a message
LLMOutcomes(instruction) ==
    [ok : {TRUE}, text : {llm_reply(instruction)}]
        \cup [ok : {FALSE}, text : Errors]

apply_edit ==
    \E markdown_text \in Contents, instruction \in Instructions,
       track_version \in BOOLEAN :
      \E llm \in LLMOutcomes(instruction) :
        /\ (llm.ok /\ track_version) => Len(all_tracked) < MaxEdits
        /\ IF llm.ok
           THEN /\ edit_result' =
                       SuccessResult(markdown_text, llm.text, instruction)
                /\ IF track_version
                   THEN /\ version_history' =
                               add_version(version_history, max_versions,
                                           llm.text, instruction, now)
                        /\ tracked_log' = Append(tracked_log,
                               EditVersion(version_history, llm.text,
                                           instruction, now))
                        /\ all_tracked' = Append(all_tracked,
                               version_id_for(version_history, now))
                   ELSE UNCHANGED <<version_history, tracked_log, all_tracked>>
           ELSE /\ edit_result' =
                       FailureResult(markdown_text, instruction, llm.text)
                /\ UNCHANGED <<version_history, tracked_log, all_tracked>>
        /\ last_op' = [op |-> "apply_edit", ok |-> llm.ok,
                       tracked |-> track_version, arg |-> NoneId,
                       text |-> markdown_text, instruction |-> instruction,
                       err |-> IF llm.ok THEN NoneText ELSE llm.text]
        /\ undo_result' = NoneText
        /\ UNCHANGED <<max_versions, now>>

\* The index of the first entry of h whose version_id is v, or 0
first_match(h, v) ==
    IF \E i \in 1..Len(h) : h[i].version_id = v
    THEN CHOOSE i \in 1..Len(h) :
             /\ h[i].version_id = v
             /\ \A j \in 1..(i - 1) : h[j].version_id # v
    ELSE 0

\* EditingAgent.undo_to_version: the returned value
undo_content(h, v) ==
    IF first_match(h, v) # 0 THEN h[first_match(h, v)].content ELSE NoneText

\* EditingAgent.undo_to_version: the history it leaves behind
undo_history(h, v) == h

\* The ids a caller can know (every id handed out so far) and one that was
\* never handed out
KnownIds == {all_tracked[i] : i \in 1..Len(all_tracked)} \cup {<<1, MaxClock + 1>>}

agent_undo_to_version ==
    \E version_id \in KnownIds :
        /\ undo_result' = undo_content(version_history, version_id)
        /\ version_history' = undo_history(version_history, version_id)
        /\ last_op' = [op |-> "undo_to_version", ok |-> TRUE,
                       tracked |-> FALSE, arg |-> version_id,
                       text |-> NoneText, instruction |-> NoneText,
                       err |-> NoneText]
        /\ edit_result' = NoResult
        /\ UNCHANGED <<max_versions, now, tracked_log, all_tracked>>

clear_history ==
    /\ version_history' = <<>>
    /\ tracked_log' = <<>>
    /\ last_op' = [op |-> "clear_history", ok |-> TRUE, tracked |-> FALSE,
                   arg |-> NoneId, text |-> NoneText,
                   instruction |-> NoneText, err |-> NoneText]
    /\ edit_result' = NoResult
    /\ undo_result' = NoneText
    /\ UNCHANGED <<max_versions, now, all_tracked>>

\* datetime.now() moves on by a second between two calls
AgentTick ==
    /\ now < MaxClock
    /\ now' = now + 1
    /\ UNCHANGED <<max_versions, version_history, edit_result, undo_result,
                   last_op, tracked_log, all_tracked>>

NoOp == [op |-> "init", ok |-> TRUE, tracked |-> FALSE, arg |-> NoneId,
         text |-> NoneText, instruction |-> NoneText, err |-> NoneText]

\* The agent as its constructor leaves it with the default max_versions
DefaultMaxVersions == 10
DefaultMaxRetries == 3

AgentIdle ==
    /\ max_versions = DefaultMaxVersions
    /\ version_history = <<>>
    /\ now = 0
    /\ edit_result = NoResult
    /\ undo_result = NoneText
    /\ last_op = NoOp
    /\ tracked_log = <<>>
    /\ all_tracked = <<>>

\* EditingAgent.__init__ with max_versions given by the caller
AgentInit ==
    /\ max_versions \in 0..MaxMaxVersions
    /\ version_history = <<>>
    /\ now = 0
    /\ edit_result = NoResult
    /\ undo_result = NoneText
    /\ last_op = NoOp
    /\ tracked_log = <<>>
    /\ all_tracked = <<>>

----------------------------------------------------------------------------
(* BlogStorage *)

Topics == {"t1"}

\* The (markdown, edit_instruction) pairs update_blog_post is called with;
\* edit_instruction None is the default of the parameter
UpdateInputs ==
    {[markdown |-> "a", edit_instruction |-> NoneText],
     [markdown |-> "b", edit_instruction |-> "i1"]}

VersionRows(rows, post_id) == {r \in rows : r.post_id = post_id}

SetMax(S) == CHOOSE x \in S : \A y \in S : y <= x

\* Mutant: the WHERE post_id = ? of the MAX query is missing
next_version_number_any_post(rows, post_id) ==
    IF rows = {} THEN 1
    ELSE SetMax({r.version_number : r \in rows}) + 1

\* SELECT COALESCE(MAX(version_number), 0) + 1 FROM blog_post_versions
\* WHERE post_id = ?
next_version_number(rows, post_id) ==
    IF VersionRows(rows, post_id) = {} THEN 1
    ELSE SetMax({r.version_number : r \in VersionRows(rows, post_id)}) + 1

\* UNIQUE(post_id, version_number) of blog_post_versions
unique_violation(rows, row) ==
    \E r \in rows : /\ r.post_id = row.post_id
                     /\ r.version_number = row.version_number

\* edit_instruction or f"Edit #{version_number}"
instruction_or_default(edit_instruction, version_number) ==
    IF edit_instruction = NoneText
    THEN [text |-> "Edit #", n |-> version_number]
    ELSE [text |-> edit_instruction, n |-> 0]

\* Mutant: the post row is left as it was, only the version is stored
update_markdown_skipped(posts, post_id, markdown) == posts

\* UPDATE blog_posts SET markdown = ?, updated_at = CURRENT_TIMESTAMP
\* WHERE id = ?
update_markdown(posts, post_id, markdown) ==
    [posts EXCEPT ![post_id].markdown = markdown]

StoreRaised == [raised |-> TRUE, value |-> 0]
StoreReturned(v) == [raised |-> FALSE, value |-> v]

\* The dicts and the optional arguments save_blog_post is called with
SourceDict == <<DictItem(PyStr("url"), PyStr("u1")),
                DictItem(PyStr("tags"),
                         PySeq("list", <<PyStr("1"), PyInt(1), PyNone>>))>>
PlainDict == <<DictItem(PyStr("1"), PyInt(2))>>
IntKeyDict == <<DictItem(PyInt(1), PyStr("a")),
                DictItem(PyStr("1"), PyStr("b"))>>
TupleDict == <<DictItem(PyStr("size"), PySeq("tuple", <<PyInt(1), PyInt(2)>>))>>

SaveArgs(references, images, metadata) ==
    [references |-> references, images |-> images, metadata |-> metadata]

DefaultSaveArgs == SaveArgs(NoArg, NoArg, NoArg)

SaveInputs ==
    {DefaultSaveArgs,
     SaveArgs(Arg(<<SourceDict, PlainDict>>), Arg(<<>>), Arg(SourceDict)),
     SaveArgs(Arg(<<TupleDict>>), Arg(<<PlainDict>>), Arg(IntKeyDict)),
     SaveArgs(Arg(<<>>), Arg(<<IntKeyDict, SourceDict>>), Arg(<<>>))}

\* Mutant: images_json and references_json change places in the VALUES
insert_values_swapped(topic, markdown, references_json, images_json, metadata_json) ==
    [topic |-> topic, markdown |-> markdown, source_refs |-> images_json,
     images |-> references_json, metadata |-> metadata_json]

\* INSERT INTO blog_posts (topic, markdown, source_refs, images, metadata)
\* VALUES (?, ?, ?, ?, ?)
insert_values(topic, markdown, references_json, images_json, metadata_json) ==
    [topic |-> topic, markdown |-> markdown, source_refs |-> references_json,
     images |-> images_json, metadata |-> metadata_json]

\* BlogStorage.save_blog_post.  db_ok = FALSE is a sqlite3.Error inside the
\* with-block: the connection's context manager rolls the transaction back
\* and the error is re-raised.
save_blog_post ==
    \E topic \in Topics, markdown \in Contents, args \in save_inputs,
       db_ok \in BOOLEAN :
        /\ post_seq < MaxPosts
        /\ UNCHANGED <<store_post, save_inputs>>
        /\ LET post_id == post_seq + 1
               references_json == dumps_dict_list(or_empty(args.references))
               images_json == dumps_dict_list(or_empty(args.images))
               metadata_json == dumps_dict(or_empty(args.metadata))
               row == [post_id |-> post_id, version_number |-> 1,
                       markdown |-> markdown,
                       edit_instruction |->
                           [text |-> "Initial version", n |-> 0]]
           IN IF db_ok /\ ~unique_violation(blog_post_versions, row)
              THEN /\ blog_posts' =
                          [i \in DOMAIN blog_posts \cup {post_id} |->
                              IF i = post_id
                              THEN insert_values(topic, markdown,
                                                 references_json, images_json,
                                                 metadata_json)
                              ELSE blog_posts[i]]
                   /\ blog_post_versions' = blog_post_versions \cup {row}
                   /\ post_seq' = post_id
                   /\ save_calls' =
                          [i \in DOMAIN blog_posts \cup {post_id} |->
                              IF i = post_id
                              THEN [topic |-> topic, markdown |-> markdown,
                                    args |-> args]
                              ELSE save_calls[i]]
                   /\ update_count' =
                          [i \in DOMAIN blog_posts \cup {post_id} |->
                              IF i = post_id THEN 0 ELSE update_count[i]]
                   /\ store_ret' = StoreReturned(post_id)
              ELSE /\ store_ret' = StoreRaised
                   /\ UNCHANGED <<blog_posts, blog_post_versions, post_seq,
                                  update_count, save_calls>>

\* What get_blog_post returns: None, or dict(row) with the three decoded
\* fields
NonePost ==
    [found |-> FALSE, id |-> 0, topic |-> "", markdown |-> "",
     references |-> <<>>, images |-> <<>>, metadata |-> <<>>]

\* BlogStorage.get_blog_post.  A column written by save_blog_post is never
\* NULL nor the empty string, so each of the three is decoded.
get_blog_post ==
    \E post_id \in 1..MaxPosts, db_ok \in BOOLEAN :
        /\ UNCHANGED <<blog_posts, blog_post_versions, post_seq,
                       update_count, save_calls, save_inputs>>
        /\ IF ~db_ok
           THEN /\ store_ret' = StoreRaised
                /\ UNCHANGED store_post
           ELSE /\ store_ret' =
                       StoreReturned(IF post_id \in DOMAIN blog_posts
                                     THEN 1 ELSE 0)
                /\ store_post' =
                       IF post_id \notin DOMAIN blog_posts THEN NonePost
                       ELSE LET row == blog_posts[post_id]
                            IN [found |-> TRUE, id |-> post_id,
                                topic |-> row.topic,
                                markdown |-> row.markdown,
                                references |->
                                    loads_object_list(row.source_refs),
                                images |-> loads_object_list(row.images),
                                metadata |-> loads_object(row.metadata)]

\* BlogStorage.update_blog_post; it returns False (0) for an unknown post_id
\* and True (1) after storing the new version
update_blog_post ==
    \E db_ok \in BOOLEAN :
        /\ UNCHANGED <<store_post, save_calls, save_inputs>>
        /\ IF ~db_ok
           THEN /\ store_ret' = StoreRaised
                /\ UNCHANGED <<blog_posts, blog_post_versions, post_seq,
                               update_count>>
           ELSE \E post_id \in 1..MaxPosts :
                IF post_id \notin DOMAIN blog_posts
                THEN /\ store_ret' = StoreReturned(0)
                     /\ UNCHANGED <<blog_posts, blog_post_versions, post_seq,
                                    update_count>>
                ELSE \E input \in UpdateInputs :
                     LET version_number ==
                             next_version_number(blog_post_versions, post_id)
                         row == [post_id |-> post_id,
                                 version_number |-> version_number,
                                 markdown |-> input.markdown,
                                 edit_instruction |->
                                     instruction_or_default(
                                         input.edit_instruction,
                                         version_number)]
                     IN /\ version_number <= MaxVersionNumber
                        /\ IF unique_violation(blog_post_versions, row)
                           THEN /\ store_ret' = StoreRaised
                                /\ UNCHANGED <<blog_posts,
                                               blog_post_versions,
                                               update_count>>
                           ELSE /\ blog_posts' =
                                       update_markdown(blog_posts, post_id,
                                                       input.markdown)
                                /\ blog_post_versions' =
                                       blog_post_versions \cup {row}
                                /\ update_count' =
                                       [update_count EXCEPT
                                           ![post_id] = @ + 1]
                                /\ store_ret' = StoreReturned(1)
                        /\ UNCHANGED post_seq

\* BlogStorage.delete_blog_post; it returns False (0) for an unknown post_id.
\* Its connection does not set PRAGMA foreign_keys, so whether ON DELETE
\* CASCADE removes the versions is the default the sqlite library was built
\* with (cascade).
delete_blog_post ==
    \E db_ok \in BOOLEAN :
        /\ UNCHANGED <<store_post, save_inputs>>
        /\ IF ~db_ok
           THEN /\ store_ret' = StoreRaised
                /\ UNCHANGED <<blog_posts, blog_post_versions, post_seq,
                               update_count, save_calls>>
           ELSE \E post_id \in 1..MaxPosts :
                IF post_id \notin DOMAIN blog_posts
                THEN /\ store_ret' = StoreReturned(0)
                     /\ UNCHANGED <<blog_posts, blog_post_versions, post_seq,
                                    update_count, save_calls>>
                ELSE \E cascade \in BOOLEAN :
                     /\ blog_posts' =
                            [i \in DOMAIN blog_posts \ {post_id} |->
                                blog_posts[i]]
                     /\ update_count' =
                            [i \in DOMAIN blog_posts \ {post_id} |->
                                update_count[i]]
                     /\ save_calls' =
                            [i \in DOMAIN blog_posts \ {post_id} |->
                                save_calls[i]]
                     /\ blog_post_versions' =
                            IF cascade
                            THEN blog_post_versions
                                     \ VersionRows(blog_post_versions,
                                                   post_id)
                            ELSE blog_post_versions
                     /\ store_ret' = StoreReturned(1)
                     /\ UNCHANGED post_seq

\* BlogStorage.__init__ / _init_database on a fresh file
StoreInit ==
    /\ blog_posts = <<>>
    /\ blog_post_versions = {}
    /\ post_seq = 0
    /\ store_ret = StoreReturned(0)
    /\ update_count = <<>>
    /\ store_post = NonePost
    /\ save_calls = <<>>
    /\ save_inputs = {DefaultSaveArgs}

\* The same, for callers that pass references, images and metadata
StoreInitWithArgs ==
    /\ blog_posts = <<>>
    /\ blog_post_versions = {}
    /\ post_seq = 0
    /\ store_ret = StoreReturned(0)
    /\ update_count = <<>>
    /\ store_post = NonePost
    /\ save_calls = <<>>
    /\ save_inputs = SaveInputs

----------------------------------------------------------------------------
(* HTTP server.  The handlers are plain def endpoints, so FastAPI runs them *)
(* on worker threads.  Every `with get_db_connection()` block runs under   *)
(* db_lock and is one step.  What a handler does before its block touches  *)
(* nothing shared: it calls the LLM and formats an id from the clock.  The *)
(* block is entered at some later time (the LLM call and the wait for      *)
(* db_lock take time, other requests run meanwhile), so at the time of the *)
(* block the id is the second at which the handler read the clock: any     *)
(* second up to now.  A post id 'post_<second>' and a version id           *)
(* 'v_<second>' are the second; the post_id "current" is Current; a NULL   *)
(* current_version_id is Null.                                             *)

\* The worker threads followed through POST /generate, the one handler with
\* two database blocks; the other handlers run on the rest of the pool
Threads == {1}

Current == -1
Null == -1

Seconds == 0..MaxHttpClock

\* The post_id a request names: the id of a post, or the default "current"
PostIdArgs == DOMAIN http_blog_posts \cup {Current}

\* The table has room for the row of one more post
room_for_post == Cardinality(DOMAIN http_blog_posts) < MaxHttpPosts

\* datetime.now().strftime('%Y%m%d_%H%M%S') read at or after second `since`
\* by a handler whose database block runs now
ClockReads(since) == since..http_now

Response(op, status, id, content) ==
    [op |-> op, status |-> status, id |-> id, content |-> content]

\* A row of blog_posts: topic, content and the other columns are written
\* by the INSERT only, and current_version_id is NULL until an undo
PostRow == [topic |-> "t1", current_version_id |-> Null]

\* INSERT INTO blog_posts (id, ...) VALUES (...)
insert_post(posts, id) ==
    [i \in DOMAIN posts \cup {id} |-> IF i = id THEN PostRow ELSE posts[i]]

\* The content POST /generate stores and returns: the text of the Groq
\* reply, stored with provider 'groq-direct' and returned with status
\* 'success', or the hardcoded template, stored with provider 'fallback'
\* and returned with status 'success (fallback mode)'
groq_content == "groq-direct"

\* The content POST /generate-enhanced stores and returns (provider
\* 'groq-enhanced')
enhanced_content == "groq-enhanced"
fallback_template == "fallback"

\* POST /generate, try branch.  With the Groq call failing (or no
\* GROQ_API_KEY) the except branch runs at once: template, new id, INSERT;
\* a PRIMARY KEY clash there is not caught and ends the request with a 500.
\* With the call succeeding the post is inserted; a PRIMARY KEY clash is an
\* exception too, and the request goes on in the except branch.
\* How the Groq step of a handler goes: generate_with_groq_api returns
\* content ("ok"), or an exception is raised before the INSERT ("failed":
\* the ValueError for an unset GROQ_API_KEY, or an error of the call)
GroqOutcomes == {"ok", "failed"}

\* What the request log keeps of it
generated(ok) == IF ok THEN "completed" ELSE "failed"

generate_blog_post ==
    \E t \in Threads, groq \in GroqOutcomes, post_id \in ClockReads(0) :
        /\ pc[t] = "idle"
        /\ post_id \notin DOMAIN http_blog_posts => room_for_post
        /\ IF groq = "ok" /\ post_id \notin DOMAIN http_blog_posts
           THEN /\ http_blog_posts' =
                       insert_post(http_blog_posts, post_id)
                /\ http_resp' =
                       Response("generate", 200, post_id, groq_content)
                /\ generation' = generated(groq = "ok")
                /\ UNCHANGED <<pc, local>>
           ELSE IF groq = "ok"
           THEN /\ pc' = [pc EXCEPT ![t] = "fallback"]
                /\ local' = [local EXCEPT ![t] = http_now]
                /\ UNCHANGED <<http_blog_posts, http_resp, generation>>
           ELSE IF post_id \notin DOMAIN http_blog_posts
           THEN /\ http_blog_posts' =
                       insert_post(http_blog_posts, post_id)
                /\ http_resp' =
                       Response("generate", 200, post_id, fallback_template)
                /\ generation' = generated(groq = "ok")
                /\ UNCHANGED <<pc, local>>
           ELSE /\ http_resp' = Response("generate", 500, Null, NoneText)
                /\ generation' = generated(groq = "ok")
                /\ UNCHANGED <<http_blog_posts, pc, local>>
        /\ UNCHANGED <<versions, http_now>>

\* POST /generate, except branch after the INSERT of the try branch failed:
\* the id is formatted again, after that failure, and the template is
\* stored and returned
generate_fallback ==
    \E t \in Threads :
        /\ pc[t] = "fallback"
        /\ \E post_id \in ClockReads(local[t]) :
              /\ post_id \notin DOMAIN http_blog_posts => room_for_post
              /\ IF post_id \notin DOMAIN http_blog_posts
                 THEN /\ http_blog_posts' =
                             insert_post(http_blog_posts, post_id)
                      /\ http_resp' =
                             Response("generate", 200, post_id,
                                      fallback_template)
                 ELSE /\ http_resp' =
                             Response("generate", 500, Null, NoneText)
                      /\ UNCHANGED http_blog_posts
        /\ generation' = generated(TRUE)
        /\ pc' = [pc EXCEPT ![t] = "idle"]
        /\ local' = [local EXCEPT ![t] = 0]
        /\ UNCHANGED <<versions, http_now>>

\* SELECT MAX(version_number) FROM versions WHERE post_id = ?, then `or 0`
max_version(vs, post_id) ==
    IF {i \in DOMAIN vs : vs[i].post_id = post_id} = {} THEN 0
    ELSE SetMax({vs[i].version_number :
                    i \in {j \in DOMAIN vs : vs[j].post_id = post_id}})

\* INSERT INTO versions (id, post_id, content, instruction, created_at,
\* version_number) VALUES (...)
insert_version_numbered(vs, id, post_id, content, instruction, number) ==
    [i \in DOMAIN vs \cup {id} |->
        IF i = id
        THEN [post_id |-> post_id, content |-> content,
              instruction |-> instruction, version_number |-> number]
        ELSE vs[i]]

\* The SELECT MAX and the INSERT of POST /edit, run without another
\* statement between them
insert_version(vs, id, post_id, content, instruction) ==
    insert_version_numbered(vs, id, post_id, content, instruction,
                            max_version(vs, post_id) + 1)

\* POST /edit: 400 without content or instruction; 500 when the Groq call
\* fails or the INSERT hits the PRIMARY KEY of versions
edit_blog_post ==
    \E outcome \in {"invalid", "llm_error", "edited"} :
        /\ IF outcome = "invalid"
           THEN /\ http_resp' = Response("edit", 400, Null, NoneText)
                /\ UNCHANGED versions
           ELSE IF outcome = "llm_error"
           THEN /\ http_resp' = Response("edit", 500, Null, NoneText)
                /\ UNCHANGED versions
           ELSE \E version_id \in ClockReads(0) :
                    IF version_id \in DOMAIN versions
                    THEN /\ http_resp' =
                                Response("edit", 500, Null, NoneText)
                         /\ UNCHANGED versions
                    ELSE \E post_id \in PostIdArgs,
                            instruction \in Instructions :
                             /\ versions' =
                                    insert_version(versions, version_id,
                                                   post_id,
                                                   llm_reply(instruction),
                                                   instruction)
                             /\ http_resp' =
                                    Response("edit", 200, version_id,
                                             llm_reply(instruction))
        /\ generation' = "none"
        /\ UNCHANGED <<http_blog_posts, http_now, pc, local>>

\* Mutant: the undo discards the versions of the post that are newer than
\* the restored one
undo_versions_truncating(vs, version_id) ==
    [i \in {j \in DOMAIN vs :
                \/ vs[j].post_id # vs[version_id].post_id
                \/ vs[j].version_number <= vs[version_id].version_number}
        |-> vs[i]]

\* POST /edit/undo/{version_id}: the versions table after the request
undo_versions(vs, version_id) == vs

\* UPDATE blog_posts SET current_version_id = ? WHERE id = ?
set_current_version(posts, post_id, version_id) ==
    [i \in DOMAIN posts |->
        IF i = post_id
        THEN [posts[i] EXCEPT !.current_version_id = version_id]
        ELSE posts[i]]

\* POST /edit/undo/{version_id} for one version_id
undo_request(version_id) ==
    /\ IF version_id \notin DOMAIN versions
       THEN /\ http_resp' = Response("undo", 404, Null, NoneText)
            /\ UNCHANGED <<http_blog_posts, versions>>
       ELSE /\ http_blog_posts' =
                   set_current_version(http_blog_posts,
                                       versions[version_id].post_id,
                                       version_id)
            /\ versions' = undo_versions(versions, version_id)
            /\ http_resp' = Response("undo", 200, version_id,
                                     versions[version_id].content)
    /\ generation' = "none"
    /\ UNCHANGED <<http_now, pc, local>>

\* POST /edit/undo/{version_id}
http_undo_to_version == \E version_id \in Seconds : undo_request(version_id)

\* DELETE /edit/history/{post_id}
clear_version_history ==
    \E post_id \in PostIdArgs :
        /\ versions' = [i \in {j \in DOMAIN versions :
                                  versions[j].post_id # post_id}
                           |-> versions[i]]
        /\ http_resp' = Response("clear", 200, Null, NoneText)
        /\ generation' = "none"
        /\ UNCHANGED <<http_blog_posts, http_now, pc, local>>

HttpTick ==
    /\ http_now < MaxHttpClock
    /\ http_now' = http_now + 1
    /\ UNCHANGED <<http_blog_posts, versions, pc, local, http_resp, generation>>

\* init_database on a fresh file, no request in flight
HttpInit ==
    /\ http_blog_posts = <<>>
    /\ versions = <<>>
    /\ http_now = 0
    /\ pc = [t \in Threads |-> "idle"]
    /\ local = [t \in Threads |-> 0]
    /\ http_resp = Response("none", 0, Null, NoneText)
    /\ generation = "none"

----------------------------------------------------------------------------
(* API clients.  A Python value that a client handles or returns is a      *)
(* record: kind "list" with its items, or kind "dict", "str" or "null" for *)
(* a JSON object, string or null found where a list was expected.          *)

PyList(items) == [kind |-> "list", items |-> items]
EmptyList == PyList(<<>>)
PyOther(kind) == [kind |-> kind, items |-> <<>>]

ListsUpTo(S, n) == UNION {[1..k -> S] : k \in 0..n}

\* s[:n]
Prefix(s, n) == IF Len(s) <= n THEN s ELSE SubSeq(s, 1, n)

\* The count argument of a search: below, at and above the cap of
\* fetch_images
ImageCap == 3
Counts == {0, 1, 2, ImageCap + 1}

FetchReturned(op, value, failed) ==
    [op |-> op, raised |-> FALSE, value |-> value, request_failed |-> failed]

FetchRaised(op, failed) ==
    [op |-> op, raised |-> TRUE, value |-> PyOther("null"),
     request_failed |-> failed]

\* str.lower() on the strings that occur
lower(str) ==
    IF str = "U1" THEN "u1" ELSE IF str = "W1" THEN "w1"
    ELSE IF str = "K" THEN "k" ELSE str

NoReturn == FetchReturned("none", EmptyList, FALSE)

\* ---- ResearchAgent (src/research_agent.py) ----

\* An entry of web.results: three articles whose titles share words, a
\* fourth with the url of the first in upper case, an entry whose url is a
\* number, and an entry that is not an object
ArticleItems == {"a1", "a2", "a3", "a1_again", "bad_url", "junk"}

article_url(item) ==
    IF item = "a2" THEN "u2" ELSE IF item = "a3" THEN "u3"
    ELSE IF item = "a1_again" THEN "U1" ELSE "u1"

\* The words of the title of an article, as title.split() gives them
article_title(item) ==
    IF item = "a1" THEN {"w1", "w2", "w3", "w4"}
    ELSE IF item = "a2" THEN {"W1", "w2", "w3", "w4", "w5"}
    ELSE IF item = "a3" THEN {"w1", "w2", "w3"}
    ELSE {"z"}

\* set(s.lower().split())
title_words(item) == {lower(w) : w \in article_title(item)}

\* What one GET of the search API ends in: an exception of requests, a
\* status 429 (with a retry-after header that int() takes, or one that is a
\* date), another error status (whose message may hold the text "429"), a
\* body that is not JSON, or a JSON body.  The shapes of a JSON body: {} ,
\* an object without "web", "web": null, "web": {"results": null}, and
\* "web": {"results": [...]}
ResearchReplies ==
    [status : {"timeout", "connection_error", "error_status",
               "error_mentions_429", "status_429", "status_429_date",
               "not_json"},
     shape : {"none"}, results : {<<>>}]
    \cup [status : {"ok"},
          shape : {"empty_object", "no_web", "web_null", "results_null"},
          results : {<<>>}]
    \cup [status : {"ok"}, shape : {"results"},
          results : ListsUpTo(ArticleItems, MaxResults)]

\* The request did not give a body of the expected shape
research_failed(reply) ==
    reply.status # "ok" \/ reply.shape \in {"empty_object", "web_null",
                                            "results_null"}

\* _make_request_with_retry: the attempt is made again (after a sleep)
retried(reply, attempt) ==
    /\ reply.status \in {"status_429", "timeout", "error_mentions_429"}
    /\ attempt < max_retries

\* _make_request_with_retry, the attempt that is not made again: the
\* parsed body, None, or an exception that leaves the function.  int() of a
\* retry-after date is a ValueError, which no except clause of the function
\* names.  response.json() of a body that is not JSON raises a
\* RequestException in requests 2.27 and later (None) and a bare ValueError
\* before (json_is_request_exception says which).
request_result(reply, json_is_request_exception) ==
    IF reply.status = "ok" THEN "parsed"
    ELSE IF reply.status = "status_429_date" THEN "raised"
    ELSE IF reply.status = "not_json" /\ ~json_is_request_exception
    THEN "raised"
    ELSE "None"

\* _extract_articles: the entries that are objects with a url
extract_articles(results) ==
    SelectSeq(results, LAMBDA item : item # "junk")

\* Mutant: the threshold is exclusive
is_similar_string_strict(w1, w2) ==
    /\ w1 # {}
    /\ w2 # {}
    /\ 5 * Cardinality(w1 \cap w2) > 4 * Cardinality(w1 \cup w2)

\* _is_similar_string on the word sets of two titles, threshold 0.8
is_similar_string(w1, w2) ==
    /\ w1 # {}
    /\ w2 # {}
    /\ 5 * Cardinality(w1 \cap w2) >= 4 * Cardinality(w1 \cup w2)

RECURSIVE dedup_from(_, _, _)
\* _deduplicate_articles, the loop from entry i on, with what was kept
dedup_from(articles, i, kept) ==
    IF i > Len(articles) THEN kept
    ELSE IF \/ \E k \in 1..Len(kept) :
                  lower(article_url(kept[k])) = lower(article_url(articles[i]))
            \/ \E k \in 1..Len(kept) :
                  is_similar_string(title_words(articles[i]),
                                    title_words(kept[k]))
         THEN dedup_from(articles, i + 1, kept)
         ELSE dedup_from(articles, i + 1, Append(kept, articles[i]))

deduplicate_articles(articles) == dedup_from(articles, 1, <<>>)

\* Mutant: the list is cut to count before it is deduplicated
truncate_then_dedup(articles, count) ==
    deduplicate_articles(Prefix(articles, count))

\* articles = self._deduplicate_articles(articles); return articles[:count]
dedup_then_truncate(articles, count) ==
    Prefix(deduplicate_articles(articles), count)

\* search_articles once _make_request_with_retry has returned.  No data, or
\* an exception anywhere (the `in` test on null, the loop over null,
\* .lower() of a url that is a number), gives [].
articles_for(reply, count) ==
    IF reply.status # "ok" \/ reply.shape # "results" THEN EmptyList
    ELSE IF \E k \in 1..Len(reply.results) : reply.results[k] = "bad_url"
    THEN EmptyList
    ELSE PyList(dedup_then_truncate(extract_articles(reply.results), count))

IdleCall ==
    [pc |-> "idle", attempt |-> 0, count |-> 0, results |-> <<>>,
     data |-> "none", last |-> "none"]

IdleImageCall ==
    [pc |-> "idle", topic |-> "", keywords |-> <<>>, requested |-> 0,
     count |-> 0, i |-> 0, remaining |-> 0, all_images |-> <<>>,
     queries_used |-> {}, queries |-> <<>>, all_failed |-> TRUE]

\* The client is used by one caller: no call is in progress
NoCall == research_call.pc = "idle" /\ image_call.pc = "idle"

\* No call is in progress and the caller holds no result of a call
Ready ==
    /\ research_call = IdleCall
    /\ image_call = IdleImageCall
    /\ fetch_ret = NoReturn

\* The caller has the result of the call that ended and goes on
result_taken ==
    /\ NoCall
    /\ ~Ready
    /\ research_call' = IdleCall
    /\ image_call' = IdleImageCall
    /\ fetch_ret' = NoReturn
    /\ UNCHANGED max_retries

\* search_articles is called: the retry loop starts
search_articles ==
    \E count \in Counts :
        /\ Ready
        /\ research_call' = [IdleCall EXCEPT !.pc = "request",
                                             !.count = count]
        /\ UNCHANGED <<max_retries, image_call, fetch_ret>>

\* One attempt of the loop of _make_request_with_retry and, unless the
\* attempt is made again, the rest of search_articles
make_request_with_retry ==
    \E reply \in ResearchReplies :
      \E json_is_request_exception \in
             IF reply.status = "not_json" THEN BOOLEAN ELSE {TRUE} :
        /\ research_call.pc = "request"
        /\ IF retried(reply, research_call.attempt)
           THEN /\ research_call' =
                       [research_call EXCEPT !.attempt = @ + 1]
                /\ UNCHANGED fetch_ret
           ELSE /\ research_call' =
                       [research_call EXCEPT
                           !.pc = "idle",
                           !.results = reply.results,
                           !.data = request_result(reply,
                                        json_is_request_exception),
                           !.last = reply.status]
                /\ fetch_ret' =
                       FetchReturned("search_articles",
                                     articles_for(reply, research_call.count),
                                     research_failed(reply))
        /\ UNCHANGED <<max_retries, image_call>>

\* ---- ResearchAgent (backend/agents.py) ----

\* search: every exception (the request, the body, an entry that is not an
\* object) gives []
backend_search ==
    \E reply \in ResearchReplies :
        /\ Ready
        /\ fetch_ret' =
              FetchReturned("search",
                  IF \/ reply.status # "ok"
                     \/ reply.shape # "results"
                     \/ \E k \in 1..Len(reply.results) :
                           reply.results[k] = "junk"
                  THEN EmptyList
                  ELSE PyList(reply.results),
                  research_failed(reply))
        /\ UNCHANGED <<max_retries, research_call, image_call>>

\* ---- ImageAgent (src/image_agent.py), provider pexels ----

\* An entry of photos: two photos with a url, and an entry without one
\* (not an object, or "src": null)
ImageItems == {"p1", "p2", "junk"}

\* for keyword in keywords[:2]
KeywordCap == 2

\* The keywords argument: none, one, one equal to the topic, one that
\* differs from another by case only, and more than keywords[:2] takes
KeywordLists ==
    {<<>>, <<"k">>, <<"t", "k">>, <<"k", "K", "k2">>, <<"k", "k2", "k3">>}

\* What one GET of the image API ends in: an exception of requests, an
\* error status, a body that is not JSON or not an object, or an object
\* whose "photos" is a list, an object, a string or null
ImageReplies ==
    [status : {"timeout", "connection_error", "error_status", "not_json",
               "not_object"},
     photos : {EmptyList}]
    \cup [status : {"ok"},
          photos : {PyList(items) : items \in ListsUpTo(ImageItems, MaxResults)}
                   \cup {PyOther("dict"), PyOther("str"), PyOther("null")}]

\* The request did not give a body of the expected shape
image_failed(reply) == reply.status # "ok" \/ reply.photos.kind # "list"

\* _search_images: [] on an exception (len(None) is one), else whatever
\* data.get('photos', []) is
search_images_result(reply) ==
    IF reply.status # "ok" \/ reply.photos.kind = "null" THEN EmptyList
    ELSE reply.photos

\* images[:n] raises for an object
slice_raises(images) == images.kind = "dict"

\* The entries of images[:n] that _process_image_data gives an image_url;
\* the characters of a string give none
processed(images, n) ==
    IF images.kind = "list"
    THEN SelectSeq(Prefix(images.items, n), LAMBDA img : img # "junk")
    ELSE <<>>

\* processed['search_query'] = query
Image(provider_id, query) ==
    [provider_id |-> provider_id, search_query |-> query]

\* The loop over the images of the topic query: every image is appended
topic_images(imgs, topic) ==
    [k \in 1..Len(imgs) |-> Image(imgs[k], topic)]

RECURSIVE add_images_unchecked(_, _, _, _, _)
\* Mutant: the images of a keyword are appended without the look at the
\* provider ids already there
add_images_unchecked(imgs, i, all_images, count, keyword) ==
    IF i > Len(imgs) THEN all_images
    ELSE IF Len(all_images) + 1 >= count
    THEN Append(all_images, Image(imgs[i], keyword))
    ELSE add_images_unchecked(imgs, i + 1,
             Append(all_images, Image(imgs[i], keyword)), count, keyword)

RECURSIVE add_images(_, _, _, _, _)
\* The loop over the images of a keyword query, from entry i on
add_images(imgs, i, all_images, count, keyword) ==
    IF i > Len(imgs) THEN all_images
    ELSE IF \E k \in 1..Len(all_images) :
                all_images[k].provider_id = imgs[i]
    THEN add_images(imgs, i + 1, all_images, count, keyword)
    ELSE IF Len(all_images) + 1 >= count
    THEN Append(all_images, Image(imgs[i], keyword))
    ELSE add_images(imgs, i + 1,
             Append(all_images, Image(imgs[i], keyword)), count, keyword)

RECURSIVE next_keyword_uncapped(_, _, _)
\* Mutant: the loop runs over all the keywords
next_keyword_uncapped(keywords, i, queries_used) ==
    IF i > Len(keywords) THEN 0
    ELSE IF lower(keywords[i]) \in queries_used
    THEN next_keyword_uncapped(keywords, i + 1, queries_used)
    ELSE i

RECURSIVE next_keyword(_, _, _)
\* The loop over keywords[:2] from keyword i on: the first keyword that is
\* searched, 0 if there is none
next_keyword(keywords, i, queries_used) ==
    IF i > Len(keywords) \/ i > KeywordCap THEN 0
    ELSE IF lower(keywords[i]) \in queries_used
    THEN next_keyword(keywords, i + 1, queries_used)
    ELSE i

\* fetch_images after the topic part (call.i = 0) or after the query of
\* keyword call.i: the call with the next keyword to search, or finished.
\* `if len(all_images) < count and keywords` opens the loop and
\* `if len(all_images) >= count: break` ends it.
next_step(call) ==
    LET next == next_keyword(call.keywords, call.i + 1, call.queries_used)
    IN  IF Len(call.all_images) < call.count /\ next # 0
        THEN [call EXCEPT
                 !.pc = "keywords", !.i = next,
                 !.remaining = IF call.i = 0
                               THEN call.count - Len(call.all_images)
                               ELSE @]
        ELSE [call EXCEPT !.pc = "idle"]

\* final_images = all_images[:count]; return final_images
fetch_images_return(call) ==
    IF call.pc = "idle"
    THEN FetchReturned("fetch_images",
                       PyList(Prefix(call.all_images, call.count)),
                       call.queries # <<>> /\ call.all_failed)
    ELSE NoReturn

\* Mutant: the count is taken as it is asked
uncapped_count(count) == count

\* if count > 3: count = min(count, 3)
capped_count(count) == IF count > ImageCap THEN ImageCap ELSE count

\* _search_images(query, count)
search_images ==
    \E reply \in ImageReplies :
        /\ Ready
        /\ fetch_ret' = FetchReturned("_search_images",
                                      search_images_result(reply),
                                      image_failed(reply))
        /\ UNCHANGED <<max_retries, research_call, image_call>>

\* fetch_images(topic, keywords, count) is called: the count is capped, and
\* with an empty topic the topic query is skipped
fetch_images ==
    \E topic \in {"t", ""}, keywords \in KeywordLists, count \in Counts :
        LET call == [IdleImageCall EXCEPT
                        !.pc = "topic", !.topic = topic,
                        !.keywords = keywords, !.requested = count,
                        !.count = capped_count(count)]
            started == IF topic # "" THEN call ELSE next_step(call)
        IN  /\ Ready
            /\ image_call' = started
            /\ fetch_ret' = fetch_images_return(started)
            /\ UNCHANGED <<max_retries, research_call>>

\* One _search_images of fetch_images with the loop over its images, and
\* what follows up to the next query or the return
image_query ==
    \E reply \in ImageReplies :
        LET query == IF image_call.pc = "topic" THEN image_call.topic
                     ELSE image_call.keywords[image_call.i]
            images == search_images_result(reply)
            asked == [image_call EXCEPT
                         !.queries =
                             Append(@, [query |-> query,
                                        phase |-> image_call.pc,
                                        have |-> Len(image_call.all_images),
                                        usable |->
                                            Len(processed(images,
                                                IF image_call.pc = "topic"
                                                THEN image_call.count
                                                ELSE image_call.remaining))]),
                         !.all_failed = @ /\ image_failed(reply)]
            looped == [asked EXCEPT
                          !.all_images =
                              IF image_call.pc = "topic"
                              THEN @ \o topic_images(
                                            processed(images, image_call.count),
                                            query)
                              ELSE add_images(
                                       processed(images, image_call.remaining),
                                       1, @, image_call.count, query),
                          !.queries_used = @ \cup {lower(query)}]
        IN  /\ image_call.pc \in {"topic", "keywords"}
            /\ IF slice_raises(images)
               THEN /\ image_call' = [asked EXCEPT !.pc = "idle"]
                    /\ fetch_ret' =
                           FetchRaised("fetch_images", asked.all_failed)
               ELSE /\ image_call' = next_step(looped)
                    /\ fetch_ret' = fetch_images_return(next_step(looped))
            /\ UNCHANGED <<max_retries, research_call>>

\* A ResearchAgent built with the default max_retries, never called
FetchIdle ==
    /\ max_retries = DefaultMaxRetries
    /\ research_call = IdleCall
    /\ image_call = IdleImageCall
    /\ fetch_ret = NoReturn

\* A ResearchAgent with some max_retries, no call made yet
FetchInit ==
    /\ max_retries \in 0..MaxRetries
    /\ research_call = IdleCall
    /\ image_call = IdleImageCall
    /\ fetch_ret = NoReturn

----------------------------------------------------------------------------
(* POST /generate-enhanced *)

\* What search_with_brave_api and search_images_with_pexels meet: no API key
\* (the search is skipped), a request or a reply that raises, no result,
\* results
SearchOutcomes == {"no_key", "raises", "empty", "found"}

\* The number of items a search returns: every exception is caught and gives
\* [] (lines 184-186, 220-222)
search_result(outcome) == IF outcome = "found" THEN 2 ELSE 0

NoEnhancedCall ==
    [done |-> FALSE, groq_key |-> TRUE, research |-> "empty",
     image_search |-> "empty", llm_ok |-> TRUE, status |-> 0,
     detail |-> NoneText, sources |-> 0, images |-> 0, stored |-> 0]

EnhancedAnswer(groq_key, research, image_search, llm_ok, status, detail, sources, images, stored) ==
    [done |-> TRUE, groq_key |-> groq_key, research |-> research,
     image_search |-> image_search, llm_ok |-> llm_ok, status |-> status,
     detail |-> detail, sources |-> sources, images |-> images,
     stored |-> stored]

\* POST /generate-enhanced.  Any exception of the try block is answered
\* with HTTPException(500, str(e)): GROQ_API_KEY not set, the Groq request
\* failing, and the PRIMARY KEY of blog_posts refusing the INSERT.
generate_enhanced_blog_post ==
    \E t \in Threads, groq_key \in BOOLEAN, llm_ok \in BOOLEAN,
       research \in SearchOutcomes, image_search \in SearchOutcomes,
       post_id \in ClockReads(0) :
        /\ pc[t] = "idle"
        /\ post_id \notin DOMAIN http_blog_posts => room_for_post
        /\ IF ~groq_key
           THEN /\ enhanced_call' =
                       EnhancedAnswer(groq_key, research, image_search,
                                      llm_ok, 500, "GROQ_API_KEY not set",
                                      0, 0, 0)
                /\ http_resp' =
                       Response("generate_enhanced", 500, Null, NoneText)
                /\ UNCHANGED http_blog_posts
           ELSE IF ~llm_ok
           THEN /\ enhanced_call' =
                       EnhancedAnswer(groq_key, research, image_search,
                                      llm_ok, 500, "llm error", 0, 0, 0)
                /\ http_resp' =
                       Response("generate_enhanced", 500, Null, NoneText)
                /\ UNCHANGED http_blog_posts
           ELSE IF post_id \in DOMAIN http_blog_posts
           THEN /\ enhanced_call' =
                       EnhancedAnswer(groq_key, research, image_search,
                                      llm_ok, 500,
                                      "UNIQUE constraint failed", 0, 0, 0)
                /\ http_resp' =
                       Response("generate_enhanced", 500, Null, NoneText)
                /\ UNCHANGED http_blog_posts
           ELSE /\ enhanced_call' =
                       EnhancedAnswer(groq_key, research, image_search,
                                      llm_ok, 200, NoneText,
                                      search_result(research),
                                      search_result(image_search), 1)
                /\ http_resp' =
                       Response("generate_enhanced", 200, post_id,
                                enhanced_content)
                /\ http_blog_posts' =
                       insert_post(http_blog_posts, post_id)
        /\ generation' = generated(groq_key /\ llm_ok)
        /\ UNCHANGED <<versions, http_now, pc, local>>

EnhancedIdle == enhanced_call = NoEnhancedCall

----------------------------------------------------------------------------
(* EditingAgent._generate_changes_summary.  A text is a sequence of         *)
(* characters: a letter, a space or a newline.                             *)

Whitespace == {" ", "\n"}

Chars == {"w"} \cup Whitespace

Texts == UNION {[1..n -> Chars] : n \in 0..MaxTextLen}

\* Mutant: text.split(" "), which cuts at every single space
len_split_on_space(text, i, in_word) ==
    Cardinality({j \in i..Len(text) : text[j] = " "}) + 1

\* len(text.split()) counted from character i on, in_word telling whether
\* character i - 1 belongs to a word: split() cuts at runs of whitespace
\* and yields no empty string
RECURSIVE len_split(_, _, _)
len_split(text, i, in_word) ==
    IF i > Len(text) THEN 0
    ELSE IF text[i] \in Whitespace THEN len_split(text, i + 1, FALSE)
    ELSE (IF in_word THEN 0 ELSE 1) + len_split(text, i + 1, TRUE)

\* f"{word_change:+d}": the sign, always written, and the digits
format_signed(n) ==
    IF n >= 0 THEN [sign |-> "+", digits |-> n]
    ELSE [sign |-> "-", digits |-> 0 - n]

\* The last line of the summary: "Word count change: {word_change:+d} words
\* ({original_words} -> {edited_words})"
changes_summary(original, edited) ==
    LET original_words == len_split(original, 1, FALSE)
        edited_words == len_split(edited, 1, FALSE)
        word_change == edited_words - original_words
    IN [done |-> TRUE, original |-> original, edited |-> edited,
        word_change |-> format_signed(word_change),
        original_words |-> original_words, edited_words |-> edited_words]

NoSummary ==
    [done |-> FALSE, original |-> <<>>, edited |-> <<>>,
     word_change |-> format_signed(0), original_words |-> 0,
     edited_words |-> 0]

\* apply_edit reaches _generate_changes_summary with the original and the
\* edited text
generate_changes_summary ==
    \E original \in Texts, edited \in Texts :
        /\ ~summary_call.done
        /\ summary_call' = changes_summary(original, edited)

\* The caller has the EditResult; the next edit can start
summary_taken ==
    /\ summary_call.done
    /\ summary_call' = NoSummary

SummaryIdle == summary_call = NoSummary

----------------------------------------------------------------------------
(* Database errors: DatabaseManager (database.py), the reading operations  *)
(* of BlogStorage (db.py) and the reading handlers of main.py.  db_error   *)
(* is an sqlite3.Error raised inside the operation's try block.            *)

DbCall(api, op, db_error, outcome, value) ==
    [api |-> api, op |-> op, db_error |-> db_error, outcome |-> outcome,
     value |-> value]

NoDbCall == DbCall("none", "none", FALSE, "returned", "None")

DmIds == 1..MaxPosts

\* DatabaseManager.save_blog_post: INSERT OR REPLACE; except Exception:
\* return False
dm_save_blog_post ==
    \E id \in DmIds, content \in Contents, db_error \in BOOLEAN :
        IF db_error
        THEN /\ db_call' = DbCall("DatabaseManager", "save_blog_post", TRUE,
                                  "returned", "False")
             /\ UNCHANGED dm_posts
        ELSE /\ dm_posts' = [i \in DOMAIN dm_posts \cup {id} |->
                                IF i = id THEN content ELSE dm_posts[i]]
             /\ db_call' = DbCall("DatabaseManager", "save_blog_post", FALSE,
                                  "returned", "True")

\* DatabaseManager.get_blog_post, list_blog_posts, search_blog_posts and
\* get_stats: except Exception: return None, [], [], {}
dm_read ==
    \E op \in {"get_blog_post", "list_blog_posts", "search_blog_posts",
                "get_stats"},
       id \in DmIds, db_error \in BOOLEAN :
        /\ db_call' =
               DbCall("DatabaseManager", op, db_error, "returned",
                      IF op = "get_blog_post"
                      THEN (IF db_error \/ id \notin DOMAIN dm_posts
                            THEN "None" ELSE dm_posts[id])
                      ELSE IF op = "get_stats"
                      THEN (IF db_error THEN "{}" ELSE "stats")
                      ELSE IF db_error \/ dm_posts = <<>>
                      THEN "[]" ELSE "posts")
        /\ UNCHANGED dm_posts

\* DatabaseManager.delete_blog_post: except Exception: return False
dm_delete_blog_post ==
    \E id \in DmIds, db_error \in BOOLEAN :
        IF db_error \/ id \notin DOMAIN dm_posts
        THEN /\ db_call' = DbCall("DatabaseManager", "delete_blog_post",
                                  db_error, "returned", "False")
             /\ UNCHANGED dm_posts
        ELSE /\ dm_posts' = [i \in DOMAIN dm_posts \ {id} |-> dm_posts[i]]
             /\ db_call' = DbCall("DatabaseManager", "delete_blog_post",
                                  FALSE, "returned", "True")

\* BlogStorage.list_blog_posts, search_blog_posts and get_stats: except
\* sqlite3.Error: log and raise
storage_read ==
    \E op \in {"list_blog_posts", "search_blog_posts", "get_stats"},
       db_error \in BOOLEAN :
        /\ db_call' =
               IF db_error
               THEN DbCall("BlogStorage", op, TRUE, "raised", "None")
               ELSE DbCall("BlogStorage", op, FALSE, "returned",
                           IF op = "get_stats" THEN "stats" ELSE "posts")
        /\ UNCHANGED dm_posts

\* GET /posts and GET /edit/history/{post_id} answer an exception with a
\* normal body (lines 514-516, 817-819); GET /post/{post_id} answers it
\* with HTTPException(500) and an unknown id with 404
handler_read ==
    \E op \in {"list_posts", "get_post", "get_version_history"},
       known \in BOOLEAN, db_error \in BOOLEAN :
        /\ db_call' =
               IF op = "list_posts"
               THEN DbCall("main", op, db_error, "200",
                           IF db_error THEN "[]" ELSE "posts")
               ELSE IF op = "get_version_history"
               THEN DbCall("main", op, db_error, "200",
                           IF db_error \/ ~known THEN "[]" ELSE "versions")
               ELSE IF db_error
               THEN DbCall("main", op, TRUE, "500", "None")
               ELSE IF known
               THEN DbCall("main", op, FALSE, "200", "post")
               ELSE DbCall("main", op, FALSE, "404", "None")
        /\ UNCHANGED dm_posts

DbIdle ==
    /\ dm_posts = <<>>
    /\ db_call = NoDbCall

----------------------------------------------------------------------------
(* get_db_connection and db_lock *)

WorkerThreads == 1..MaxThreads

Free == 0

\* The handlers that open a get_db_connection() block, by how they can leave
\* it: list_posts returns from inside the block, undo_to_version can raise
\* HTTPException(404) inside it, every one of them can meet a sqlite3 error
BlockHandlers == {"generate_blog_post", "list_posts", "undo_to_version"}

\* The local variables of a POST /edit request that reached its block:
\* the post_id of the request, the version_id formatted from the clock, the
\* instruction, and max_version once the SELECT has run
EditLocals(post_id, version_id, instruction, max_version_read) ==
    [post_id |-> post_id, version_id |-> version_id,
     instruction |-> instruction, max_version |-> max_version_read]

NoLocals == EditLocals(Current, Null, NoneText, Null)

IdleWorker ==
    [pc |-> "idle", handler |-> "none", conn |-> "None", exit |-> "none",
     request |-> NoLocals]

\* Mutant: no lock is taken before the connection is opened
lock_acquired_unlocked(lock, t) == t

\* threading.Lock.acquire() returns once the lock is free, and then the
\* caller holds it
lock_acquired(lock, t) == IF lock = Free THEN t ELSE lock

\* A handler reaches "with get_db_connection() as conn:"
enter_block(t) ==
    \E h \in BlockHandlers :
        /\ worker[t].pc = "idle"
        /\ worker' = [worker EXCEPT ![t] =
               [pc |-> "with db_lock", handler |-> h, conn |-> "None",
                exit |-> "none", request |-> NoLocals]]
        /\ UNCHANGED db_lock

\* Mutant: the handler does not wait for db_lock
acquire_not_waiting(t) ==
    /\ worker[t].pc = "with db_lock"
    /\ db_lock' = t
    /\ worker' = [worker EXCEPT ![t].pc = "try"]

\* with db_lock: (line 42); conn = None (line 43)
acquire(t) ==
    /\ worker[t].pc = "with db_lock"
    /\ lock_acquired(db_lock, t) = t
    /\ db_lock' = lock_acquired(db_lock, t)
    /\ worker' = [worker EXCEPT ![t].pc = "try"]

\* Lines 46-52: sqlite3.connect raises and conn stays None, or a PRAGMA
\* raises with the connection open, or all succeed and conn is yielded
connect(t) ==
    \E outcome \in {"connect_raises", "pragma_raises", "yield"} :
        /\ worker[t].pc = "try"
        /\ worker' = [worker EXCEPT ![t] =
               IF outcome = "connect_raises"
               THEN [@ EXCEPT !.pc = "finally", !.exit = "exception"]
               ELSE IF outcome = "pragma_raises"
               THEN [@ EXCEPT !.pc = "finally", !.conn = "open",
                              !.exit = "exception"]
               ELSE [@ EXCEPT !.pc = "body", !.conn = "open"]]
        /\ UNCHANGED db_lock

\* The handler's block runs at the yield and ends: at its end or by a
\* return, or by an exception, which is thrown into the generator at the
\* yield
leave_body(t) ==
    \E exit \in {"normal", "exception"} :
        /\ worker[t].pc = "body"
        /\ worker' = [worker EXCEPT ![t].pc = "finally", ![t].exit = exit]
        /\ UNCHANGED db_lock

\* finally: if conn: conn.close() (lines 54-56), then the with statement
\* of line 42 releases db_lock, also when close() raises
release(t) ==
    \E close_raises \in BOOLEAN :
        /\ worker[t].pc = "finally"
        /\ close_raises => worker[t].conn = "open"
        /\ worker' = [worker EXCEPT ![t] =
               [pc |-> "idle", handler |-> @.handler, conn |-> "None",
                exit |-> IF close_raises THEN "exception" ELSE @.exit,
                request |-> NoLocals]]
        /\ db_lock' = IF db_lock = t THEN Free ELSE db_lock

\* ---- POST /edit (main.py) on the worker threads ----

\* The post_id of an edit request: the default "current", or an id
EditPostIds == {Current, 0}

\* POST /edit up to its block: the Groq request has answered, version_id
\* is formatted from the clock, and the handler reaches
\* "with get_db_connection() as conn:"
edit_enter(t) ==
    \E post_id \in EditPostIds, instruction \in {"i1"} :
        /\ worker[t].pc = "idle"
        /\ worker' = [worker EXCEPT ![t] =
               [pc |-> "with db_lock", handler |-> "edit_blog_post",
                conn |-> "None", exit |-> "none",
                request |-> EditLocals(post_id, http_now, instruction, Null)]]
        /\ UNCHANGED db_lock

\* cursor.execute('SELECT MAX(version_number) ...');
\* max_version = cursor.fetchone()[0] or 0
edit_select_max(t) ==
    /\ worker[t].pc = "body"
    /\ worker[t].handler = "edit_blog_post"
    /\ worker[t].request.max_version = Null
    /\ worker' = [worker EXCEPT ![t].request.max_version =
                      max_version(versions, worker[t].request.post_id)]
    /\ UNCHANGED db_lock

\* cursor.execute('INSERT INTO versions ...') with max_version + 1, and
\* conn.commit(): the end of the block, or the IntegrityError of a
\* version_id that is stored already
edit_insert(t) ==
    LET r == worker[t].request IN
    /\ worker[t].pc = "body"
    /\ worker[t].handler = "edit_blog_post"
    /\ r.max_version # Null
    /\ IF r.version_id \in DOMAIN versions
       THEN /\ worker' = [worker EXCEPT ![t].pc = "finally",
                                        ![t].exit = "exception"]
            /\ UNCHANGED versions
       ELSE /\ versions' =
                   insert_version_numbered(versions, r.version_id, r.post_id,
                                           llm_reply(r.instruction),
                                           r.instruction, r.max_version + 1)
            /\ worker' = [worker EXCEPT ![t].pc = "finally",
                                        ![t].exit = "normal"]
    /\ UNCHANGED <<db_lock, http_blog_posts, http_now, pc, local, http_resp,
                   generation>>

LockIdle ==
    /\ db_lock = Free
    /\ worker = [t \in WorkerThreads |-> IdleWorker]

----------------------------------------------------------------------------
(* BlogWriterAgent.edit_content.  __init__ stores its provider as          *)
(* self.llm_provider, its key as self.api_key and its model as self.model; *)
(* it sets no attribute named provider.                                    *)

\* The llm_provider of a constructed agent
WriterProviders == {"groq", "openai", "anthropic"}

\* The provider argument: the default None, an empty string, a provider
ProviderArgs == {"None", ""} \cup WriterProviders

\* The attributes __init__ sets on the agent
WriterAttributes == {"llm_provider", "api_key", "model", "client"}

\* The model argument: the default None, or a model id
ModelArgs == {"None", "llama3-70b-8192"}

WriterCall(llm_provider, content, instruction, provider, model, llm, raised, value) ==
    [done |-> TRUE, llm_provider |-> llm_provider, content |-> content,
     instruction |-> instruction, provider |-> provider, model |-> model,
     llm |-> llm, raised |-> raised, value |-> value]

NoWriterCall ==
    [done |-> FALSE, llm_provider |-> "groq", content |-> NoneText,
     instruction |-> NoneText, provider |-> "None", model |-> "None",
     llm |-> "none", raised |-> "none", value |-> NoneText]

\* edit_content once the provider is 'groq': the stripped reply, or the
\* original content when anything in the try block raises
edit_content_result(content, llm) ==
    IF llm.ok THEN llm.text ELSE content

\* BlogWriterAgent.edit_content.  `provider or self.provider` reads the
\* attribute when the argument is None or empty; the statement stands
\* before the try block.
edit_content ==
    \E llm_provider \in WriterProviders, content \in Contents,
       instruction \in Instructions, provider \in ProviderArgs,
       model \in ModelArgs :
        /\ ~writer_call.done
        /\ IF provider \in {"None", ""} /\ "provider" \notin WriterAttributes
           THEN writer_call' =
                    WriterCall(llm_provider, content, instruction, provider,
                               model, "none", "AttributeError", NoneText)
           ELSE IF provider = "groq"
           THEN \E llm \in LLMOutcomes(instruction) :
                    writer_call' =
                        WriterCall(llm_provider, content, instruction,
                                   provider, model,
                                   IF llm.ok THEN "ok" ELSE llm.text,
                                   "none", edit_content_result(content, llm))
           ELSE writer_call' =
                    WriterCall(llm_provider, content, instruction, provider,
                               model, "none", "none", content)

\* The caller has the result and goes on
edit_content_taken ==
    /\ writer_call.done
    /\ writer_call' = NoWriterCall

WriterIdle == writer_call = NoWriterCall

----------------------------------------------------------------------------
(* Specifications: one per component; the other components stay as built *)

InitAgent == AgentInit /\ StoreInit /\ HttpInit /\ FetchIdle /\ LockIdle
    /\ EnhancedIdle /\ DbIdle /\ SummaryIdle /\ WriterIdle

NextAgent ==
    \/ apply_edit /\ UNCHANGED <<storeVars, httpVars, fetchVars,
                                  lockVars, enhVars, dbVars,
                         textVars, writerVars>>
    \/ agent_undo_to_version /\ UNCHANGED <<storeVars, httpVars, fetchVars,
                                  lockVars, enhVars, dbVars,
                         textVars, writerVars>>
    \/ clear_history /\ UNCHANGED <<storeVars, httpVars, fetchVars,
                                  lockVars, enhVars, dbVars,
                         textVars, writerVars>>
    \/ AgentTick /\ UNCHANGED <<storeVars, httpVars, fetchVars,
                                  lockVars, enhVars, dbVars,
                         textVars, writerVars>>

SpecAgent == InitAgent /\ [][NextAgent]_vars

\* The calls that write version_history: apply_edit and clear_history
NextTracking ==
    \/ apply_edit /\ UNCHANGED <<storeVars, httpVars, fetchVars,
                                  lockVars, enhVars, dbVars,
                                  textVars, writerVars>>
    \/ clear_history /\ UNCHANGED <<storeVars, httpVars, fetchVars,
                                     lockVars, enhVars, dbVars,
                                     textVars, writerVars>>
    \/ AgentTick /\ UNCHANGED <<storeVars, httpVars, fetchVars,
                                 lockVars, enhVars, dbVars,
                                 textVars, writerVars>>

SpecTracking == InitAgent /\ [][NextTracking]_vars

InitStore == AgentIdle /\ StoreInit /\ HttpInit /\ FetchIdle /\ LockIdle
    /\ EnhancedIdle /\ DbIdle /\ SummaryIdle /\ WriterIdle

NextStore ==
    \/ save_blog_post /\ UNCHANGED <<agentVars, httpVars, fetchVars,
                                  lockVars, enhVars, dbVars,
                         textVars, writerVars>>
    \/ update_blog_post /\ UNCHANGED <<agentVars, httpVars, fetchVars,
                                  lockVars, enhVars, dbVars,
                         textVars, writerVars>>
    \/ delete_blog_post /\ UNCHANGED <<agentVars, httpVars, fetchVars,
                                  lockVars, enhVars, dbVars,
                         textVars, writerVars>>

SpecStore == InitStore /\ [][NextStore]_vars

\* BlogStorage called with references, images and metadata
InitStoreArgs == AgentIdle /\ StoreInitWithArgs /\ HttpInit /\ FetchIdle /\ LockIdle
    /\ EnhancedIdle /\ DbIdle /\ SummaryIdle /\ WriterIdle

NextStoreArgs ==
    \/ save_blog_post /\ UNCHANGED <<agentVars, httpVars, fetchVars,
                                  lockVars, enhVars, dbVars,
                         textVars, writerVars>>
    \/ get_blog_post /\ UNCHANGED <<agentVars, httpVars, fetchVars,
                                  lockVars, enhVars, dbVars,
                         textVars, writerVars>>
    \/ delete_blog_post /\ UNCHANGED <<agentVars, httpVars, fetchVars,
                                  lockVars, enhVars, dbVars,
                         textVars, writerVars>>

SpecStoreArgs == InitStoreArgs /\ [][NextStoreArgs]_vars

InitHttp == AgentIdle /\ StoreInit /\ HttpInit /\ FetchIdle /\ LockIdle
    /\ EnhancedIdle /\ DbIdle /\ SummaryIdle /\ WriterIdle

NextHttp ==
    \/ generate_blog_post /\ UNCHANGED <<agentVars, storeVars, fetchVars,
                                  lockVars, enhVars, dbVars,
                         textVars, writerVars>>
    \/ generate_fallback /\ UNCHANGED <<agentVars, storeVars, fetchVars,
                                  lockVars, enhVars, dbVars,
                         textVars, writerVars>>
    \/ edit_blog_post /\ UNCHANGED <<agentVars, storeVars, fetchVars,
                                  lockVars, enhVars, dbVars,
                         textVars, writerVars>>
    \/ http_undo_to_version /\ UNCHANGED <<agentVars, storeVars, fetchVars,
                                  lockVars, enhVars, dbVars,
                         textVars, writerVars>>
    \/ clear_version_history /\ UNCHANGED <<agentVars, storeVars, fetchVars,
                                  lockVars, enhVars, dbVars,
                         textVars, writerVars>>
    \/ HttpTick /\ UNCHANGED <<agentVars, storeVars, fetchVars,
                                  lockVars, enhVars, dbVars,
                         textVars, writerVars>>

SpecHttp == InitHttp /\ [][NextHttp]_vars

\* The requests that write the two tables POST /edit/undo reads and writes.
\* A POST /generate is followed when its handler ends in the request's first
\* database block; the handler that goes on to the INSERT of its except
\* branch is followed in SpecHttp.
NextUndo ==
    \/ (generate_blog_post /\ UNCHANGED pc)
           /\ UNCHANGED <<agentVars, storeVars, fetchVars,
                         lockVars, enhVars, dbVars, textVars, writerVars>>
    \/ edit_blog_post /\ UNCHANGED <<agentVars, storeVars, fetchVars,
                         lockVars, enhVars, dbVars, textVars, writerVars>>
    \/ http_undo_to_version /\ UNCHANGED <<agentVars, storeVars, fetchVars,
                         lockVars, enhVars, dbVars, textVars, writerVars>>
    \/ clear_version_history /\ UNCHANGED <<agentVars, storeVars, fetchVars,
                         lockVars, enhVars, dbVars, textVars, writerVars>>
    \/ HttpTick /\ UNCHANGED <<agentVars, storeVars, fetchVars,
                         lockVars, enhVars, dbVars, textVars, writerVars>>

SpecUndo == InitHttp /\ [][NextUndo]_vars

InitFetch == AgentIdle /\ StoreInit /\ HttpInit /\ FetchInit /\ LockIdle
    /\ EnhancedIdle /\ DbIdle /\ SummaryIdle /\ WriterIdle

NextFetch ==
    \/ search_articles /\ UNCHANGED <<agentVars, storeVars, httpVars,
                                  lockVars, enhVars, dbVars,
                         textVars, writerVars>>
    \/ make_request_with_retry /\ UNCHANGED <<agentVars, storeVars, httpVars,
                                  lockVars, enhVars, dbVars,
                         textVars, writerVars>>
    \/ backend_search /\ UNCHANGED <<agentVars, storeVars, httpVars,
                                  lockVars, enhVars, dbVars,
                         textVars, writerVars>>
    \/ search_images /\ UNCHANGED <<agentVars, storeVars, httpVars,
                                  lockVars, enhVars, dbVars,
                         textVars, writerVars>>
    \/ fetch_images /\ UNCHANGED <<agentVars, storeVars, httpVars,
                                  lockVars, enhVars, dbVars,
                         textVars, writerVars>>
    \/ image_query /\ UNCHANGED <<agentVars, storeVars, httpVars,
                                  lockVars, enhVars, dbVars,
                         textVars, writerVars>>
    \/ result_taken /\ UNCHANGED <<agentVars, storeVars, httpVars,
                                  lockVars, enhVars, dbVars,
                         textVars, writerVars>>

SpecFetch == InitFetch /\ [][NextFetch]_vars

\* The two handlers that create posts
NextEnhanced ==
    \/ generate_enhanced_blog_post
           /\ UNCHANGED <<agentVars, storeVars, fetchVars, lockVars,
                         dbVars,
                         textVars, writerVars>>
    \/ generate_blog_post
           /\ UNCHANGED <<agentVars, storeVars, fetchVars, lockVars, enhVars, dbVars,
                         textVars, writerVars>>
    \/ generate_fallback
           /\ UNCHANGED <<agentVars, storeVars, fetchVars, lockVars, enhVars, dbVars,
                         textVars, writerVars>>
    \/ HttpTick
           /\ UNCHANGED <<agentVars, storeVars, fetchVars, lockVars, enhVars, dbVars,
                         textVars, writerVars>>

SpecEnhanced == InitHttp /\ [][NextEnhanced]_vars

\* The changes summary of every pair of texts
NextSummary ==
    \/ generate_changes_summary
           /\ UNCHANGED <<agentVars, storeVars, httpVars, fetchVars, lockVars,
                          enhVars, dbVars, writerVars>>
    \/ summary_taken
           /\ UNCHANGED <<agentVars, storeVars, httpVars, fetchVars, lockVars,
                          enhVars, dbVars, writerVars>>

SpecSummary == InitStore /\ [][NextSummary]_vars

\* Calls of BlogWriterAgent.edit_content
NextWriter ==
    \/ edit_content
           /\ UNCHANGED <<agentVars, storeVars, httpVars, fetchVars, lockVars,
                          enhVars, dbVars, textVars>>
    \/ edit_content_taken
           /\ UNCHANGED <<agentVars, storeVars, httpVars, fetchVars, lockVars,
                          enhVars, dbVars, textVars>>

SpecWriter == InitStore /\ [][NextWriter]_vars

\* Database operations meeting database errors
NextDbErrors ==
    \/ dm_save_blog_post
           /\ UNCHANGED <<agentVars, storeVars, httpVars, fetchVars, lockVars,
                          enhVars, textVars, writerVars>>
    \/ dm_read
           /\ UNCHANGED <<agentVars, storeVars, httpVars, fetchVars, lockVars,
                          enhVars, textVars, writerVars>>
    \/ dm_delete_blog_post
           /\ UNCHANGED <<agentVars, storeVars, httpVars, fetchVars, lockVars,
                          enhVars, textVars, writerVars>>
    \/ storage_read
           /\ UNCHANGED <<agentVars, storeVars, httpVars, fetchVars, lockVars,
                          enhVars, textVars, writerVars>>
    \/ handler_read
           /\ UNCHANGED <<agentVars, storeVars, httpVars, fetchVars, lockVars,
                          enhVars, textVars, writerVars>>

SpecDbErrors == InitStore /\ [][NextDbErrors]_vars

\* Handlers of the thread pool entering and leaving get_db_connection()
InitLock == AgentIdle /\ StoreInit /\ HttpInit /\ FetchIdle /\ LockIdle
    /\ EnhancedIdle /\ DbIdle /\ SummaryIdle /\ WriterIdle

NextLock ==
    \/ (\E t \in WorkerThreads : enter_block(t))
           /\ UNCHANGED <<agentVars, storeVars, httpVars, fetchVars,
                         enhVars, dbVars,
                         textVars, writerVars>>
    \/ (\E t \in WorkerThreads : acquire(t))
           /\ UNCHANGED <<agentVars, storeVars, httpVars, fetchVars,
                         enhVars, dbVars,
                         textVars, writerVars>>
    \/ (\E t \in WorkerThreads : connect(t))
           /\ UNCHANGED <<agentVars, storeVars, httpVars, fetchVars,
                         enhVars, dbVars,
                         textVars, writerVars>>
    \/ (\E t \in WorkerThreads : leave_body(t))
           /\ UNCHANGED <<agentVars, storeVars, httpVars, fetchVars,
                         enhVars, dbVars,
                         textVars, writerVars>>
    \/ (\E t \in WorkerThreads : release(t))
           /\ UNCHANGED <<agentVars, storeVars, httpVars, fetchVars,
                         enhVars, dbVars,
                         textVars, writerVars>>

SpecLock == InitLock /\ [][NextLock]_vars

\* POST /edit requests on the worker threads, the clock, and
\* DELETE /edit/history, whose block is one statement and runs while it
\* holds db_lock
NextEditLock ==
    \/ (\E t \in WorkerThreads : edit_enter(t))
           /\ UNCHANGED <<agentVars, storeVars, httpVars, fetchVars,
                         enhVars, dbVars, textVars, writerVars>>
    \/ (\E t \in WorkerThreads : acquire(t))
           /\ UNCHANGED <<agentVars, storeVars, httpVars, fetchVars,
                         enhVars, dbVars, textVars, writerVars>>
    \/ (\E t \in WorkerThreads : connect(t))
           /\ UNCHANGED <<agentVars, storeVars, httpVars, fetchVars,
                         enhVars, dbVars, textVars, writerVars>>
    \/ (\E t \in WorkerThreads : edit_select_max(t))
           /\ UNCHANGED <<agentVars, storeVars, httpVars, fetchVars,
                         enhVars, dbVars, textVars, writerVars>>
    \/ (\E t \in WorkerThreads : edit_insert(t))
           /\ UNCHANGED <<agentVars, storeVars, fetchVars,
                         enhVars, dbVars, textVars, writerVars>>
    \/ (\E t \in WorkerThreads : release(t))
           /\ UNCHANGED <<agentVars, storeVars, httpVars, fetchVars,
                         enhVars, dbVars, textVars, writerVars>>
    \/ (db_lock = Free /\ clear_version_history)
           /\ UNCHANGED <<agentVars, storeVars, fetchVars, lockVars,
                         enhVars, dbVars, textVars, writerVars>>
    \/ HttpTick
           /\ UNCHANGED <<agentVars, storeVars, fetchVars, lockVars,
                         enhVars, dbVars, textVars, writerVars>>

SpecEditLock == InitLock /\ [][NextEditLock]_vars

----------------------------------------------------------------------------------------------------------------------------------------
(* Claims about the version ids of EditingAgent *)

\* C27: the version ids of the in-memory history are unique after any
\* sequence of tracked edits and clear_history, whatever the timing
\* (several edits within one second included).
C27_UniqueVersionIds ==
    \A i, j \in 1..Len(version_history) :
        i # j => version_history[i].version_id # version_history[j].version_id

----------------------------------------------------------------------------
(* Claims about BlogWriterAgent.edit_content *)

\* C26: edit_content never raises and never loses its input: with a
\* provider it does not edit with, or when the LLM request fails, it
\* returns the original content.
C26_EditContentFailSoft ==
    writer_call.done =>
        /\ writer_call.raised = "none"
        /\ (writer_call.llm # "ok") => writer_call.value = writer_call.content

----------------------------------------------------------------------------
(* Claims about version tracking in apply_edit *)

\* s is the end of h
IsSuffix(s, h) ==
    /\ Len(s) <= Len(h)
    /\ s = SubSeq(h, Len(h) - Len(s) + 1, Len(h))

\* The step is a call of apply_edit
ApplyEditStep ==
    /\ last_op'.op = "apply_edit"
    /\ <<last_op, edit_result, all_tracked>>'
          # <<last_op, edit_result, all_tracked>>

\* C25: a successful apply_edit with track_version=True adds exactly one
\* version, the newest of the history, holding the edited content and the
\* given instruction (what precedes it are the most recent versions of the
\* history before the call); with track_version=False, or when the edit
\* fails, version_history is left as it was.
C25_TrackingAllOrNothing ==
    [][ApplyEditStep =>
          IF last_op'.ok /\ last_op'.tracked
          THEN /\ version_history' # <<>>
               /\ version_history'[Len(version_history')].content
                      = edit_result'.edited_content
               /\ version_history'[Len(version_history')].instruction
                      = last_op'.instruction
               /\ IsSuffix(SubSeq(version_history', 1,
                                  Len(version_history') - 1),
                           version_history)
               /\ edit_result'.success
          ELSE version_history' = version_history]_vars

\* A tracked edit succeeded on a full history, which was trimmed, and
\* then an edit failed on that history.
C25_Witness ==
    /\ last_op.op = "apply_edit"
    /\ ~last_op.ok
    /\ last_op.tracked
    /\ max_versions >= 1
    /\ Len(version_history) = max_versions
    /\ Len(all_tracked) > max_versions

----------------------------------------------------------------------------
(* Claims about concurrent POST /edit requests *)

\* C29: with POST /edit requests running concurrently, the rows of the
\* versions table that belong to one post_id have pairwise distinct
\* version_number.
C29_DistinctVersionNumbers ==
    \A v, w \in DOMAIN versions :
        (v # w /\ versions[v].post_id = versions[w].post_id)
            => versions[v].version_number # versions[w].version_number

\* Two edits of one post are stored as versions 1 and 2; the request that
\* stored version 2 is still inside its block, which it entered with a
\* version_id formatted in an earlier second.
C29_Witness ==
    \E v, w \in DOMAIN versions :
        /\ versions[v].post_id = versions[w].post_id
        /\ versions[v].version_number = 1
        /\ versions[w].version_number = 2
        /\ \E t \in WorkerThreads :
               /\ worker[t].pc = "finally"
               /\ worker[t].request.version_id = w
               /\ w < http_now

----------------------------------------------------------------------------
(* Claims about the post row and the version chain of BlogStorage *)

\* The row of blog_post_versions with the highest version_number of a post
NewestVersion(rows, post_id) ==
    CHOOSE r \in VersionRows(rows, post_id) :
        \A q \in VersionRows(rows, post_id) :
            q.version_number <= r.version_number

\* C30: the markdown of every stored post is the markdown of its
\* highest-numbered version, after any sequence of saves and updates; a
\* call that returns False (update_blog_post for an id that is not stored)
\* changes neither table.
C30_RowFollowsVersions ==
    /\ [](\A p \in DOMAIN blog_posts :
             /\ VersionRows(blog_post_versions, p) # {}
             /\ blog_posts[p].markdown
                    = NewestVersion(blog_post_versions, p).markdown)
    /\ [][(store_ret' = StoreReturned(0) /\ store_ret # store_ret')
             => UNCHANGED <<blog_posts, blog_post_versions>>]_vars

\* A post saved with one text was updated to another text, so that its
\* versions 1 and 2 differ, and then a call for an id that is not stored
\* returned False.
C30_Witness ==
    /\ store_ret = StoreReturned(0)
    /\ \E p \in DOMAIN blog_posts :
          /\ update_count[p] >= 1
          /\ \E r \in VersionRows(blog_post_versions, p) :
                 /\ r.version_number = 1
                 /\ r.markdown # blog_posts[p].markdown

----------------------------------------------------------------------------
(* Claims about the ids of generated posts *)

\* C28: every POST /generate and POST /generate-enhanced whose content
\* generation completed stores a row under a new id and answers with that
\* id and the generated content, requests within one second included.
C28_GeneratedPostStored ==
    (http_resp.op \in {"generate", "generate_enhanced"}
         /\ generation = "completed")
        => /\ http_resp.status = 200
           /\ http_resp.id \in DOMAIN http_blog_posts
           /\ http_resp.content \in {groq_content, enhanced_content}

----------------------------------------------------------------------------
(* Claims about the fallback of POST /generate *)

\* C23: whenever the Groq generation of a POST /generate fails, or
\* GROQ_API_KEY is unset, the handler stores one blog_posts row holding the
\* hardcoded template and answers 200 with that row's id and the template
\* ('success (fallback mode)'); and the template is used only when the
\* Groq generation itself failed.
C23_FallbackOnLlmFailure ==
    http_resp.op = "generate" =>
        /\ generation = "failed"
               => /\ http_resp.status = 200
                  /\ http_resp.content = fallback_template
                  /\ http_resp.id \in DOMAIN http_blog_posts
        /\ http_resp.content = fallback_template
               => generation = "failed"

----------------
(* Claims about POST /generate-enhanced *)

\* C20: a POST /generate-enhanced whose Groq request succeeds (with
\* GROQ_API_KEY set) answers 200 and stores exactly one blog_posts row,
\* with no sources when the research search failed and no images when the
\* image search failed; one whose Groq request fails, or without
\* GROQ_API_KEY, answers 500 with the error text and stores no row.
C20_TwoTierErrors ==
    enhanced_call.done =>
        /\ (/\ enhanced_call.groq_key
            /\ enhanced_call.llm_ok
            /\ "raises" \in {enhanced_call.research,
                             enhanced_call.image_search})
               => /\ enhanced_call.status = 200
                  /\ enhanced_call.stored = 1
                  /\ enhanced_call.research = "raises"
                         => enhanced_call.sources = 0
                  /\ enhanced_call.image_search = "raises"
                         => enhanced_call.images = 0
        /\ (~enhanced_call.groq_key \/ ~enhanced_call.llm_ok)
               => /\ enhanced_call.status = 500
                  /\ enhanced_call.detail # NoneText
                  /\ enhanced_call.stored = 0

----------------------------------------------------------------------------
(* Claims about the changes summary *)

\* The words of a text: the places where a character that is not
\* whitespace starts the text or follows whitespace
WordStarts(text) ==
    {i \in 1..Len(text) :
        /\ text[i] \notin Whitespace
        /\ i = 1 \/ text[i - 1] \in Whitespace}

----------------------------------------------------------------------------
(* Claims about database errors *)

\* C21: an operation or a handler in which the database failed ends by
\* raising or with a 500 response, never with a normal return value or a
\* normal answer.
C21_DbErrorsPropagate ==
    db_call.db_error => db_call.outcome \in {"raised", "500"}

----------------------------------------------------------------------------
(* Claims about get_db_connection *)

\* The threads inside a get_db_connection() block: past the acquisition of
\* db_lock and not yet past its release
InBlock == {t \in WorkerThreads : worker[t].pc \in {"try", "body", "finally"}}

\* C19: at any time at most one handler is inside a get_db_connection()
\* block, only that handler has an open connection, and db_lock is held
\* exactly while a handler is inside: a handler that has left the block, at
\* its end or by an exception, holds neither the lock nor a connection.
C19_MutualExclusion ==
    /\ Cardinality(InBlock) <= 1
    /\ Cardinality({t \in WorkerThreads : worker[t].conn = "open"}) <= 1
    /\ \A t \in WorkerThreads :
           /\ worker[t].conn = "open" => t \in InBlock
           /\ t \in InBlock <=> db_lock = t
    /\ InBlock = {} => db_lock = Free

\* C19 witness: one handler has left its block by an exception, and
\* another one, which waited at the lock, is inside with an open connection.
C19_Witness ==
    \E t, u \in WorkerThreads :
        /\ worker[t].pc = "idle"
        /\ worker[t].exit = "exception"
        /\ worker[u].pc = "body"
        /\ worker[u].conn = "open"
        /\ db_lock = u

----------------------------------------------------------------------------
(* Claims about the EditingAgent *)

Min(a, b) == IF a <= b THEN a ELSE b

LastN(s, n) == SubSeq(s, Len(s) - n + 1, Len(s))

\* C1: for every max_versions >= 0 the length of version_history never
\* exceeds max_versions.
C1_HistoryBounded == Len(version_history) <= max_versions

\* C2: for max_versions >= 1, after n tracked successful edits since the last
\* clear_history, version_history is exactly the last min(n, max_versions)
\* tracked versions, in the order they were tracked (pure FIFO eviction).
C2_FifoEviction ==
    max_versions >= 1 =>
        version_history =
            LastN(tracked_log, Min(Len(tracked_log), max_versions))

\* C2 witness: more versions were tracked than max_versions, so the oldest
\* ones have been evicted.
C2_Witness ==
    /\ max_versions >= 2
    /\ Len(tracked_log) >= max_versions + 2
    /\ Len(version_history) = max_versions

\* C3: undo_to_version(v) returns exactly the stored content of the version
\* with id v when one is in version_history and None otherwise, and leaves
\* version_history unchanged.
C3_UndoPureRead ==
    [][agent_undo_to_version =>
        /\ version_history' = version_history
        /\ \A i \in 1..Len(version_history) :
               version_history[i].version_id = last_op'.arg
                   => undo_result' = version_history[i].content
        /\ (\A i \in 1..Len(version_history) :
                version_history[i].version_id # last_op'.arg)
               => undo_result' = NoneText]_vars

\* C4: when the LLM request of apply_edit fails, apply_edit does not raise
\* and returns success = False, error_message = the failure text and
\* edited_content = the original markdown_text.
C4_FailureKeepsContent ==
    (last_op.op = "apply_edit" /\ ~last_op.ok) =>
        /\ ~edit_result.raised
        /\ edit_result.success = FALSE
        /\ edit_result.error_message = last_op.err
        /\ edit_result.edited_content = last_op.text
        /\ edit_result.original_content = last_op.text

\* C4 witness: a failed apply_edit on an agent that already holds versions.
C4_Witness ==
    /\ last_op.op = "apply_edit"
    /\ ~last_op.ok
    /\ last_op.err = "timeout"
    /\ Len(version_history) >= 1

\* C5: every entry of version_history but the first has the id of the entry
\* before it as parent_version, and a version appended to an empty history
\* has parent_version None.
C5_ParentChain ==
    /\ \A i \in 2..Len(version_history) :
           version_history[i].parent_version
               = version_history[i - 1].version_id
    /\ Len(tracked_log) >= 1 => tracked_log[1].parent_version = NoneId

\* C5 witness: a history of at least two entries whose oldest entry has a
\* parent that was evicted.
C5_Witness ==
    /\ Len(version_history) >= 2
    /\ version_history[1].parent_version # NoneId

\* C6: the sequence number N of 'vN_<timestamp>' is strictly greater for
\* each later tracked edit than for every earlier one (here: among the
\* edits tracked since the last clear_history).
C6_SequentialIds ==
    \A i, j \in 1..Len(tracked_log) :
        i < j => tracked_log[i].version_id[1] < tracked_log[j].version_id[1]

----------------------------------------------------------------------------
(* Claims about BlogStorage *)

\* C7: the versions of each post carry exactly the numbers 1..n, without gap
\* or duplicate, where n is 1 plus the number of successful updates of that
\* post; so each update stores the previous maximum + 1.
C7_VersionNumbersDense ==
    \A p \in DOMAIN blog_posts :
        /\ {r.version_number : r \in VersionRows(blog_post_versions, p)}
               = 1..(1 + update_count[p])
        /\ Cardinality(VersionRows(blog_post_versions, p))
               = 1 + update_count[p]

\* C7 witness: two posts updated in turn, one of them twice.
C7_Witness ==
    /\ DOMAIN blog_posts = {1, 2}
    /\ update_count[1] = 2
    /\ update_count[2] = 1
    /\ store_ret = StoreReturned(1)

\* A list of dicts, or a dict, that JSON text can hold as it is: every key a
\* str and no tuple among the values
json_dict(d) == \A n \in DOMAIN d : d[n].k.t = "str" /\ d[n].v.t # "tuple"
json_dict_list(l) == \A n \in DOMAIN l : json_dict(l[n])

C18_DeleteCascades ==
    [][\A p \in DOMAIN blog_posts :
          p \notin DOMAIN blog_posts' =>
             /\ VersionRows(blog_post_versions', p) = {}
             /\ \A q \in DOMAIN blog_posts \ {p} :
                    /\ q \in DOMAIN blog_posts'
                    /\ blog_posts'[q] = blog_posts[q]
                    /\ VersionRows(blog_post_versions', q)
                           = VersionRows(blog_post_versions, q)]_vars

\* C8: in the HTTP server every blog_posts row has current_version_id NULL
\* or the id of a row that exists in the versions table.
C8_CurrentVersionExists ==
    \A p \in DOMAIN http_blog_posts :
        \/ http_blog_posts[p].current_version_id = Null
        \/ http_blog_posts[p].current_version_id \in DOMAIN versions

\* C9: POST /edit/undo/{version_id} leaves every row of the versions table
\* as it was; for a stored version it answers 200 with the content stored in
\* that row; for an unknown version_id it answers 404 and leaves blog_posts
\* as it was too.
C9_UndoNonDestructive ==
    [][\A version_id \in Seconds :
          undo_request(version_id) =>
             /\ versions' = versions
             /\ version_id \in DOMAIN versions =>
                   /\ http_resp'.status = 200
                   /\ http_resp'.content = versions[version_id].content
             /\ version_id \notin DOMAIN versions =>
                   /\ http_resp'.status = 404
                   /\ http_blog_posts' = http_blog_posts]_vars

\* An undo has restored a version of a post while a newer version of the
\* same post, with another content, is stored; the post now points at the
\* restored version.
C9_Witness ==
    /\ http_resp.op = "undo"
    /\ http_resp.status = 200
    /\ http_resp.id \in DOMAIN versions
    /\ \E w \in DOMAIN versions :
          /\ versions[w].post_id = versions[http_resp.id].post_id
          /\ versions[w].version_number >
                versions[http_resp.id].version_number
          /\ versions[w].content # http_resp.content
    /\ versions[http_resp.id].post_id \in DOMAIN http_blog_posts
    /\ http_blog_posts[versions[http_resp.id].post_id].current_version_id
          = http_resp.id

\* C10: when the HTTP request of a client call fails (timeout, connection
\* error, error status, malformed body), the call returns an empty list and
\* does not raise.
C10_FailSoft ==
    fetch_ret.request_failed =>
        /\ ~fetch_ret.raised
        /\ fetch_ret.value = EmptyList

----------------------------------------------------------------------------
(* Claims about the API clients *)

\* The Jaccard overlap of the lower-cased title words of two articles is at
\* least 0.8
Overlap80(a, b) ==
    /\ title_words(a) \cup title_words(b) # {}
    /\ 5 * Cardinality(title_words(a) \cap title_words(b))
           >= 4 * Cardinality(title_words(a) \cup title_words(b))

\* The entries of web.results that _deduplicate_articles was given by the
\* last search_articles
LastArticles == extract_articles(research_call.results)

\* C11: going through the articles in order, an article whose title
\* overlaps the title of an article retained before it by 0.8 or more
\* (exactly 0.8 included) is dropped and what was retained stays; an article
\* that overlaps every retained title by less than 0.8 and has a new url is
\* retained, after the others.
C11_TitleDedup ==
    (research_call.data = "parsed"
        /\ \A k \in 1..Len(research_call.results) :
              research_call.results[k] # "bad_url")
    => \A j \in 1..Len(LastArticles) :
          LET before == deduplicate_articles(SubSeq(LastArticles, 1, j - 1))
              upto == deduplicate_articles(SubSeq(LastArticles, 1, j))
              b == LastArticles[j]
          IN  /\ (\E k \in 1..Len(before) : Overlap80(before[k], b))
                     => upto = before
              /\ ((\A k \in 1..Len(before) :
                       /\ ~Overlap80(before[k], b)
                       /\ lower(article_url(before[k]))
                              # lower(article_url(b))))
                     => upto = Append(before, b)

\* search_articles was given an article and then one whose title overlaps
\* it by exactly 4/5 once lower-cased, and returned the first only.
C11_Witness ==
    /\ research_call.data = "parsed"
    /\ research_call.results = <<"a1", "a2">>
    /\ research_call.count >= 2
    /\ fetch_ret = FetchReturned("search_articles", PyList(<<"a1">>), FALSE)

\* C12: what search_articles returns is the first count entries of the
\* deduplicated list, in order: at most count entries, no two with the same
\* lower-cased url.
C12_DedupBeforeTruncate ==
    (fetch_ret.op = "search_articles"
        /\ research_call.data = "parsed"
        /\ \A k \in 1..Len(research_call.results) :
              research_call.results[k] # "bad_url")
    => /\ fetch_ret.value.kind = "list"
       /\ fetch_ret.value.items =
              Prefix(deduplicate_articles(LastArticles), research_call.count)
       /\ Len(fetch_ret.value.items) <= research_call.count
       /\ \A i, j \in 1..Len(fetch_ret.value.items) :
              i # j => lower(article_url(fetch_ret.value.items[i]))
                          # lower(article_url(fetch_ret.value.items[j]))

\* With count 2 and a duplicate in second place, the third article is
\* returned: the list was deduplicated before it was cut.
C12_Witness ==
    /\ research_call.data = "parsed"
    /\ research_call.results = <<"a1", "a1_again", "a3">>
    /\ research_call.count = 2
    /\ fetch_ret = FetchReturned("search_articles", PyList(<<"a1", "a3">>),
                                 FALSE)

\* The kinds of failed HTTP attempt: a timeout, a connection error, an
\* error status, a rate limit
FailedAttempts ==
    {"timeout", "connection_error", "error_status", "error_mentions_429",
     "status_429", "status_429_date"}

\* C24: a failed attempt of any kind (timeout, connection error, HTTP error
\* status, rate limit) is followed by another attempt as long as fewer than
\* max_retries retries have been made: a call of _make_request_with_retry
\* ends on a failed attempt only when attempt = max_retries.
C24_EveryFailureRetried ==
    (research_call.pc = "idle" /\ research_call.last \in FailedAttempts)
        => research_call.attempt >= max_retries

\* C13: a call of _make_request_with_retry sends at most max_retries + 1
\* requests and ends with the parsed response or with None.
C13_RetryBounded ==
    /\ research_call.pc = "request" => research_call.attempt <= max_retries
    /\ research_call.data # "none" =>
          /\ research_call.attempt + 1 <= max_retries + 1
          /\ research_call.data \in {"parsed", "None"}

\* The images fetch_images returned (none when it raised)
Returned == fetch_ret.value.items

\* C14: fetch_images returns at most min(count, 3) images.
C14_ImageCap ==
    fetch_ret.op = "fetch_images" =>
        Len(Returned) <= Min(image_call.requested, ImageCap)

\* Four images were asked for and more than three were found; three were
\* returned.
C14_Witness ==
    /\ fetch_ret.op = "fetch_images"
    /\ image_call.requested = ImageCap + 1
    /\ Len(image_call.queries) = 1
    /\ image_call.queries[1].usable = ImageCap
    /\ image_call.keywords # <<>>
    /\ Len(Returned) = ImageCap

\* C15: in a fetch_images call the topic query is the first query and the
\* only one for the topic; a keyword query is sent only while fewer images
\* than the target count are collected, the first of them after a topic part
\* that gave fewer usable images than the target; at most 2 keyword queries
\* and 3 queries are sent.
C15_QueryProtocol ==
    LET q == image_call.queries
    IN  /\ \A k \in 1..Len(q) : q[k].phase = "topic" => k = 1
        /\ (image_call.topic # "" /\ q # <<>>) =>
               /\ q[1].phase = "topic"
               /\ q[1].query = image_call.topic
        /\ \A k \in 1..Len(q) :
               q[k].phase = "keywords" =>
                   /\ q[k].have < image_call.count
                   /\ q[k].query # image_call.topic
        /\ (Len(q) >= 2 /\ q[1].phase = "topic") =>
               q[1].usable < image_call.count
        /\ Cardinality({k \in 1..Len(q) : q[k].phase = "keywords"})
               <= KeywordCap
        /\ Len(q) <= KeywordCap + 1

\* A call with three keywords ended after the topic query and two keyword
\* queries, with fewer images than asked for.
C15_Witness ==
    /\ fetch_ret.op = "fetch_images"
    /\ ~fetch_ret.raised
    /\ image_call.keywords = <<"k", "k2", "k3">>
    /\ Len(image_call.queries) = KeywordCap + 1
    /\ image_call.queries[3].query = "k2"
    /\ Len(Returned) < image_call.count

\* C16: in the list fetch_images returns, an image found by a keyword query
\* has a provider id that no image before it in the list has.
C16_KeywordDedup ==
    fetch_ret.op = "fetch_images" =>
        \A j \in 1..Len(Returned) :
            Returned[j].search_query # image_call.topic =>
                \A i \in 1..(j - 1) :
                    Returned[i].provider_id # Returned[j].provider_id

\* A keyword query gave two usable images of which one was already there:
\* the other one only was added.
C16_Witness ==
    /\ fetch_ret.op = "fetch_images"
    /\ ~fetch_ret.raised
    /\ image_call.count = ImageCap
    /\ Len(image_call.queries) = 2
    /\ image_call.queries[2].usable = 2
    /\ Returned = <<Image("p1", "t"), Image("p2", "k")>>

====
